---- MODULE Spec2Model ----
(***************************************************************************)
(* pin-and-bump (src/src/main.rs): pin the `uses:` references of workflow  *)
(* files to commit SHAs, optionally bumping them to the latest release.    *)
(*                                                                         *)
(* Text is modelled as a sequence of one-character strings, so that the    *)
(* string operations of the program (split, trim, starts_with, replace,    *)
(* format!) are computed as the program computes them.                     *)
(***************************************************************************)
EXTENDS Integers, Sequences, FiniteSets, TLC

(***************************************************************************)
(* Bounds of the model.                                                    *)
(***************************************************************************)
\* Largest number of field lines in all the workflow files of one repository.
MaxFields == 2
\* Largest number of workflow files found by the glob of main.
MaxFiles == 2

(***************************************************************************)
(* Program constants.                                                      *)
(***************************************************************************)
\* Length of a full commit SHA (parse_uses_string, get_sha_for_ref_with_base).
ShaLen == 40
\* Length of the SHA prefix compared by the no-op check (&sha[..7]).
ShortLen == 7

(***************************************************************************)
(* Strings (std::str).                                                     *)
(***************************************************************************)
\* n copies of the character c.
Rep(c, n) == [i \in 1..n |-> c]

\* str::starts_with
StartsWith(s, p) == Len(p) <= Len(s) /\ SubSeq(s, 1, Len(p)) = p

\* The pattern `from` occurs in s at index i.
MatchAt(s, from, i) ==
    /\ i + Len(from) - 1 <= Len(s)
    /\ s[i] = from[1]
    /\ SubSeq(s, i, i + Len(from) - 1) = from

\* str::contains
Contains(s, from) == \E i \in 1..Len(s) : MatchAt(s, from, i)

\* The first index from i on at which `from` occurs in s, 0 when there is none.
NextMatch(s, from, i) ==
    LET found == {j \in i..Len(s) : MatchAt(s, from, j)}
    IN  IF found = {} THEN 0 ELSE CHOOSE j \in found : \A k \in found : j <= k

RECURSIVE ReplaceFrom(_, _, _, _)
ReplaceFrom(s, from, to, i) ==
    LET j == NextMatch(s, from, i)
    IN  IF j = 0 THEN SubSeq(s, i, Len(s))
        ELSE SubSeq(s, i, j - 1) \o to \o ReplaceFrom(s, from, to, j + Len(from))

\* str::replace: every non-overlapping match of `from`, left to right.
Replace(s, from, to) == ReplaceFrom(s, from, to, 1)

RECURSIVE SplitAt(_, _, _)
\* The segments of s from index i on, cut at the indices `cuts`.
SplitAt(s, cuts, i) ==
    IF cuts = {} THEN <<SubSeq(s, i, Len(s))>>
    ELSE LET j == CHOOSE m \in cuts : \A k \in cuts : m <= k
         IN  <<SubSeq(s, i, j - 1)>> \o SplitAt(s, cuts \ {j}, j + 1)

\* str::split(char): the segments between the occurrences of c.
Split(s, c) == SplitAt(s, {j \in 1..Len(s) : s[j] = c}, 1)

RECURSIVE Join(_, _)
\* [&str]::join
Join(parts, c) ==
    IF Len(parts) = 0 THEN <<>>
    ELSE IF Len(parts) = 1 THEN parts[1]
         ELSE parts[1] \o <<c>> \o Join(Tail(parts), c)

\* A character the notation of this module cannot write is named by its code
\* point, as "U+2000"; such a name stands for one character.
HexDigitNames ==
    <<"0", "1", "2", "3", "4", "5", "6", "7", "8", "9", "A", "B", "C", "D", "E", "F">>

RECURSIVE HexName(_, _)
\* n in hexadecimal, at least `width` digits wide.
HexName(n, width) ==
    IF n = 0 /\ width <= 0 THEN ""
    ELSE HexName(n \div 16, width - 1) \o HexDigitNames[(n % 16) + 1]

CodeName(n) == "U+" \o HexName(n, 4)

\* The characters U+0000..U+07FF in the order of their code points.
CodeChars == <<
    "U+0000", "", "", "", "", "", "", "", "", "\t", "\n", "", "\f", "\r", "", "",
    "", "", "", "", "", "", "", "", "", "", "", "", "", "", "", "",
    " ", "!", "\"", "#", "$", "%", "&", "'", "(", ")", "*", "+", ",", "-", ".", "/",
    "0", "1", "2", "3", "4", "5", "6", "7", "8", "9", ":", ";", "<", "=", ">", "?",
    "@", "A", "B", "C", "D", "E", "F", "G", "H", "I", "J", "K", "L", "M", "N", "O",
    "P", "Q", "R", "S", "T", "U", "V", "W", "X", "Y", "Z", "[", "\\", "]", "^", "_",
    "U+0060", "a", "b", "c", "d", "e", "f", "g", "h", "i", "j", "k", "l", "m", "n", "o",
    "p", "q", "r", "s", "t", "u", "v", "w", "x", "y", "z", "{", "|", "}", "~", "",
    "", "", "", "", "", "", "", "", "", "", "", "", "", "", "", "",
    "", "", "", "", "", "", "", "", "", "", "", "", "", "", "", "",
    " ", "¡", "¢", "£", "¤", "¥", "¦", "§", "¨", "©", "ª", "«", "¬", "­", "®", "¯",
    "°", "±", "²", "³", "´", "µ", "¶", "·", "¸", "¹", "º", "»", "¼", "½", "¾", "¿",
    "À", "Á", "Â", "Ã", "Ä", "Å", "Æ", "Ç", "È", "É", "Ê", "Ë", "Ì", "Í", "Î", "Ï",
    "Ð", "Ñ", "Ò", "Ó", "Ô", "Õ", "Ö", "×", "Ø", "Ù", "Ú", "Û", "Ü", "Ý", "Þ", "ß",
    "à", "á", "â", "ã", "ä", "å", "æ", "ç", "è", "é", "ê", "ë", "ì", "í", "î", "ï",
    "ð", "ñ", "ò", "ó", "ô", "õ", "ö", "÷", "ø", "ù", "ú", "û", "ü", "ý", "þ", "ÿ",
    "U+0100", "U+0101", "U+0102", "U+0103", "U+0104", "U+0105", "U+0106", "U+0107", "U+0108", "U+0109", "U+010A", "U+010B", "U+010C", "U+010D", "U+010E", "U+010F",
    "U+0110", "U+0111", "U+0112", "U+0113", "U+0114", "U+0115", "U+0116", "U+0117", "U+0118", "U+0119", "U+011A", "U+011B", "U+011C", "U+011D", "U+011E", "U+011F",
    "U+0120", "U+0121", "U+0122", "U+0123", "U+0124", "U+0125", "U+0126", "U+0127", "U+0128", "U+0129", "U+012A", "U+012B", "U+012C", "U+012D", "U+012E", "U+012F",
    "U+0130", "U+0131", "U+0132", "U+0133", "U+0134", "U+0135", "U+0136", "U+0137", "U+0138", "U+0139", "U+013A", "U+013B", "U+013C", "U+013D", "U+013E", "U+013F",
    "U+0140", "U+0141", "U+0142", "U+0143", "U+0144", "U+0145", "U+0146", "U+0147", "U+0148", "U+0149", "U+014A", "U+014B", "U+014C", "U+014D", "U+014E", "U+014F",
    "U+0150", "U+0151", "U+0152", "U+0153", "U+0154", "U+0155", "U+0156", "U+0157", "U+0158", "U+0159", "U+015A", "U+015B", "U+015C", "U+015D", "U+015E", "U+015F",
    "U+0160", "U+0161", "U+0162", "U+0163", "U+0164", "U+0165", "U+0166", "U+0167", "U+0168", "U+0169", "U+016A", "U+016B", "U+016C", "U+016D", "U+016E", "U+016F",
    "U+0170", "U+0171", "U+0172", "U+0173", "U+0174", "U+0175", "U+0176", "U+0177", "U+0178", "U+0179", "U+017A", "U+017B", "U+017C", "U+017D", "U+017E", "U+017F",
    "ƀ", "Ɓ", "Ƃ", "ƃ", "Ƅ", "ƅ", "Ɔ", "Ƈ", "ƈ", "Ɖ", "Ɗ", "Ƌ", "ƌ", "ƍ", "Ǝ", "Ə",
    "Ɛ", "Ƒ", "ƒ", "Ɠ", "Ɣ", "ƕ", "Ɩ", "Ɨ", "Ƙ", "ƙ", "ƚ", "ƛ", "Ɯ", "Ɲ", "ƞ", "Ɵ",
    "Ơ", "ơ", "Ƣ", "ƣ", "Ƥ", "ƥ", "Ʀ", "Ƨ", "ƨ", "Ʃ", "ƪ", "ƫ", "Ƭ", "ƭ", "Ʈ", "Ư",
    "ư", "Ʊ", "Ʋ", "Ƴ", "ƴ", "Ƶ", "ƶ", "Ʒ", "Ƹ", "ƹ", "ƺ", "ƻ", "Ƽ", "ƽ", "ƾ", "ƿ",
    "ǀ", "ǁ", "ǂ", "ǃ", "Ǆ", "ǅ", "ǆ", "Ǉ", "ǈ", "ǉ", "Ǌ", "ǋ", "ǌ", "Ǎ", "ǎ", "Ǐ",
    "ǐ", "Ǒ", "ǒ", "Ǔ", "ǔ", "Ǖ", "ǖ", "Ǘ", "ǘ", "Ǚ", "ǚ", "Ǜ", "ǜ", "ǝ", "Ǟ", "ǟ",
    "Ǡ", "ǡ", "Ǣ", "ǣ", "Ǥ", "ǥ", "Ǧ", "ǧ", "Ǩ", "ǩ", "Ǫ", "ǫ", "Ǭ", "ǭ", "Ǯ", "ǯ",
    "ǰ", "Ǳ", "ǲ", "ǳ", "Ǵ", "ǵ", "Ƕ", "Ƿ", "Ǹ", "ǹ", "Ǻ", "ǻ", "Ǽ", "ǽ", "Ǿ", "ǿ",
    "U+0200", "U+0201", "U+0202", "U+0203", "U+0204", "U+0205", "U+0206", "U+0207", "U+0208", "U+0209", "U+020A", "U+020B", "U+020C", "U+020D", "U+020E", "U+020F",
    "U+0210", "U+0211", "U+0212", "U+0213", "U+0214", "U+0215", "U+0216", "U+0217", "U+0218", "U+0219", "U+021A", "U+021B", "U+021C", "U+021D", "U+021E", "U+021F",
    "U+0220", "U+0221", "U+0222", "U+0223", "U+0224", "U+0225", "U+0226", "U+0227", "U+0228", "U+0229", "U+022A", "U+022B", "U+022C", "U+022D", "U+022E", "U+022F",
    "U+0230", "U+0231", "U+0232", "U+0233", "U+0234", "U+0235", "U+0236", "U+0237", "U+0238", "U+0239", "U+023A", "U+023B", "U+023C", "U+023D", "U+023E", "U+023F",
    "U+0240", "U+0241", "U+0242", "U+0243", "U+0244", "U+0245", "U+0246", "U+0247", "U+0248", "U+0249", "U+024A", "U+024B", "U+024C", "U+024D", "U+024E", "U+024F",
    "U+0250", "U+0251", "U+0252", "U+0253", "U+0254", "U+0255", "U+0256", "U+0257", "U+0258", "U+0259", "U+025A", "U+025B", "U+025C", "U+025D", "U+025E", "U+025F",
    "U+0260", "U+0261", "U+0262", "U+0263", "U+0264", "U+0265", "U+0266", "U+0267", "U+0268", "U+0269", "U+026A", "U+026B", "U+026C", "U+026D", "U+026E", "U+026F",
    "U+0270", "U+0271", "U+0272", "U+0273", "U+0274", "U+0275", "U+0276", "U+0277", "U+0278", "U+0279", "U+027A", "U+027B", "U+027C", "U+027D", "U+027E", "U+027F",
    "ʀ", "ʁ", "ʂ", "ʃ", "ʄ", "ʅ", "ʆ", "ʇ", "ʈ", "ʉ", "ʊ", "ʋ", "ʌ", "ʍ", "ʎ", "ʏ",
    "ʐ", "ʑ", "ʒ", "ʓ", "ʔ", "ʕ", "ʖ", "ʗ", "ʘ", "ʙ", "ʚ", "ʛ", "ʜ", "ʝ", "ʞ", "ʟ",
    "ʠ", "ʡ", "ʢ", "ʣ", "ʤ", "ʥ", "ʦ", "ʧ", "ʨ", "ʩ", "ʪ", "ʫ", "ʬ", "ʭ", "ʮ", "ʯ",
    "ʰ", "ʱ", "ʲ", "ʳ", "ʴ", "ʵ", "ʶ", "ʷ", "ʸ", "ʹ", "ʺ", "ʻ", "ʼ", "ʽ", "ʾ", "ʿ",
    "ˀ", "ˁ", "˂", "˃", "˄", "˅", "ˆ", "ˇ", "ˈ", "ˉ", "ˊ", "ˋ", "ˌ", "ˍ", "ˎ", "ˏ",
    "ː", "ˑ", "˒", "˓", "˔", "˕", "˖", "˗", "˘", "˙", "˚", "˛", "˜", "˝", "˞", "˟",
    "ˠ", "ˡ", "ˢ", "ˣ", "ˤ", "˥", "˦", "˧", "˨", "˩", "˪", "˫", "ˬ", "˭", "ˮ", "˯",
    "˰", "˱", "˲", "˳", "˴", "˵", "˶", "˷", "˸", "˹", "˺", "˻", "˼", "˽", "˾", "˿",
    "U+0300", "U+0301", "U+0302", "U+0303", "U+0304", "U+0305", "U+0306", "U+0307", "U+0308", "U+0309", "U+030A", "U+030B", "U+030C", "U+030D", "U+030E", "U+030F",
    "U+0310", "U+0311", "U+0312", "U+0313", "U+0314", "U+0315", "U+0316", "U+0317", "U+0318", "U+0319", "U+031A", "U+031B", "U+031C", "U+031D", "U+031E", "U+031F",
    "U+0320", "U+0321", "U+0322", "U+0323", "U+0324", "U+0325", "U+0326", "U+0327", "U+0328", "U+0329", "U+032A", "U+032B", "U+032C", "U+032D", "U+032E", "U+032F",
    "U+0330", "U+0331", "U+0332", "U+0333", "U+0334", "U+0335", "U+0336", "U+0337", "U+0338", "U+0339", "U+033A", "U+033B", "U+033C", "U+033D", "U+033E", "U+033F",
    "U+0340", "U+0341", "U+0342", "U+0343", "U+0344", "U+0345", "U+0346", "U+0347", "U+0348", "U+0349", "U+034A", "U+034B", "U+034C", "U+034D", "U+034E", "U+034F",
    "U+0350", "U+0351", "U+0352", "U+0353", "U+0354", "U+0355", "U+0356", "U+0357", "U+0358", "U+0359", "U+035A", "U+035B", "U+035C", "U+035D", "U+035E", "U+035F",
    "U+0360", "U+0361", "U+0362", "U+0363", "U+0364", "U+0365", "U+0366", "U+0367", "U+0368", "U+0369", "U+036A", "U+036B", "U+036C", "U+036D", "U+036E", "U+036F",
    "U+0370", "U+0371", "U+0372", "U+0373", "U+0374", "U+0375", "U+0376", "U+0377", "U+0378", "U+0379", "U+037A", "U+037B", "U+037C", "U+037D", "U+037E", "U+037F",
    "΀", "΁", "΂", "΃", "΄", "΅", "Ά", "·", "Έ", "Ή", "Ί", "΋", "Ό", "΍", "Ύ", "Ώ",
    "ΐ", "Α", "Β", "Γ", "Δ", "Ε", "Ζ", "Η", "Θ", "Ι", "Κ", "Λ", "Μ", "Ν", "Ξ", "Ο",
    "Π", "Ρ", "΢", "Σ", "Τ", "Υ", "Φ", "Χ", "Ψ", "Ω", "Ϊ", "Ϋ", "ά", "έ", "ή", "ί",
    "ΰ", "α", "β", "γ", "δ", "ε", "ζ", "η", "θ", "ι", "κ", "λ", "μ", "ν", "ξ", "ο",
    "π", "ρ", "ς", "σ", "τ", "υ", "φ", "χ", "ψ", "ω", "ϊ", "ϋ", "ό", "ύ", "ώ", "Ϗ",
    "ϐ", "ϑ", "ϒ", "ϓ", "ϔ", "ϕ", "ϖ", "ϗ", "Ϙ", "ϙ", "Ϛ", "ϛ", "Ϝ", "ϝ", "Ϟ", "ϟ",
    "Ϡ", "ϡ", "Ϣ", "ϣ", "Ϥ", "ϥ", "Ϧ", "ϧ", "Ϩ", "ϩ", "Ϫ", "ϫ", "Ϭ", "ϭ", "Ϯ", "ϯ",
    "ϰ", "ϱ", "ϲ", "ϳ", "ϴ", "ϵ", "϶", "Ϸ", "ϸ", "Ϲ", "Ϻ", "ϻ", "ϼ", "Ͻ", "Ͼ", "Ͽ",
    "U+0400", "U+0401", "U+0402", "U+0403", "U+0404", "U+0405", "U+0406", "U+0407", "U+0408", "U+0409", "U+040A", "U+040B", "U+040C", "U+040D", "U+040E", "U+040F",
    "U+0410", "U+0411", "U+0412", "U+0413", "U+0414", "U+0415", "U+0416", "U+0417", "U+0418", "U+0419", "U+041A", "U+041B", "U+041C", "U+041D", "U+041E", "U+041F",
    "U+0420", "U+0421", "U+0422", "U+0423", "U+0424", "U+0425", "U+0426", "U+0427", "U+0428", "U+0429", "U+042A", "U+042B", "U+042C", "U+042D", "U+042E", "U+042F",
    "U+0430", "U+0431", "U+0432", "U+0433", "U+0434", "U+0435", "U+0436", "U+0437", "U+0438", "U+0439", "U+043A", "U+043B", "U+043C", "U+043D", "U+043E", "U+043F",
    "U+0440", "U+0441", "U+0442", "U+0443", "U+0444", "U+0445", "U+0446", "U+0447", "U+0448", "U+0449", "U+044A", "U+044B", "U+044C", "U+044D", "U+044E", "U+044F",
    "U+0450", "U+0451", "U+0452", "U+0453", "U+0454", "U+0455", "U+0456", "U+0457", "U+0458", "U+0459", "U+045A", "U+045B", "U+045C", "U+045D", "U+045E", "U+045F",
    "U+0460", "U+0461", "U+0462", "U+0463", "U+0464", "U+0465", "U+0466", "U+0467", "U+0468", "U+0469", "U+046A", "U+046B", "U+046C", "U+046D", "U+046E", "U+046F",
    "U+0470", "U+0471", "U+0472", "U+0473", "U+0474", "U+0475", "U+0476", "U+0477", "U+0478", "U+0479", "U+047A", "U+047B", "U+047C", "U+047D", "U+047E", "U+047F",
    "Ҁ", "ҁ", "҂", "҃", "҄", "҅", "҆", "҇", "҈", "҉", "Ҋ", "ҋ", "Ҍ", "ҍ", "Ҏ", "ҏ",
    "Ґ", "ґ", "Ғ", "ғ", "Ҕ", "ҕ", "Җ", "җ", "Ҙ", "ҙ", "Қ", "қ", "Ҝ", "ҝ", "Ҟ", "ҟ",
    "Ҡ", "ҡ", "Ң", "ң", "Ҥ", "ҥ", "Ҧ", "ҧ", "Ҩ", "ҩ", "Ҫ", "ҫ", "Ҭ", "ҭ", "Ү", "ү",
    "Ұ", "ұ", "Ҳ", "ҳ", "Ҵ", "ҵ", "Ҷ", "ҷ", "Ҹ", "ҹ", "Һ", "һ", "Ҽ", "ҽ", "Ҿ", "ҿ",
    "Ӏ", "Ӂ", "ӂ", "Ӄ", "ӄ", "Ӆ", "ӆ", "Ӈ", "ӈ", "Ӊ", "ӊ", "Ӌ", "ӌ", "Ӎ", "ӎ", "ӏ",
    "Ӑ", "ӑ", "Ӓ", "ӓ", "Ӕ", "ӕ", "Ӗ", "ӗ", "Ә", "ә", "Ӛ", "ӛ", "Ӝ", "ӝ", "Ӟ", "ӟ",
    "Ӡ", "ӡ", "Ӣ", "ӣ", "Ӥ", "ӥ", "Ӧ", "ӧ", "Ө", "ө", "Ӫ", "ӫ", "Ӭ", "ӭ", "Ӯ", "ӯ",
    "Ӱ", "ӱ", "Ӳ", "ӳ", "Ӵ", "ӵ", "Ӷ", "ӷ", "Ӹ", "ӹ", "Ӻ", "ӻ", "Ӽ", "ӽ", "Ӿ", "ӿ",
    "U+0500", "U+0501", "U+0502", "U+0503", "U+0504", "U+0505", "U+0506", "U+0507", "U+0508", "U+0509", "U+050A", "U+050B", "U+050C", "U+050D", "U+050E", "U+050F",
    "U+0510", "U+0511", "U+0512", "U+0513", "U+0514", "U+0515", "U+0516", "U+0517", "U+0518", "U+0519", "U+051A", "U+051B", "U+051C", "U+051D", "U+051E", "U+051F",
    "U+0520", "U+0521", "U+0522", "U+0523", "U+0524", "U+0525", "U+0526", "U+0527", "U+0528", "U+0529", "U+052A", "U+052B", "U+052C", "U+052D", "U+052E", "U+052F",
    "U+0530", "U+0531", "U+0532", "U+0533", "U+0534", "U+0535", "U+0536", "U+0537", "U+0538", "U+0539", "U+053A", "U+053B", "U+053C", "U+053D", "U+053E", "U+053F",
    "U+0540", "U+0541", "U+0542", "U+0543", "U+0544", "U+0545", "U+0546", "U+0547", "U+0548", "U+0549", "U+054A", "U+054B", "U+054C", "U+054D", "U+054E", "U+054F",
    "U+0550", "U+0551", "U+0552", "U+0553", "U+0554", "U+0555", "U+0556", "U+0557", "U+0558", "U+0559", "U+055A", "U+055B", "U+055C", "U+055D", "U+055E", "U+055F",
    "U+0560", "U+0561", "U+0562", "U+0563", "U+0564", "U+0565", "U+0566", "U+0567", "U+0568", "U+0569", "U+056A", "U+056B", "U+056C", "U+056D", "U+056E", "U+056F",
    "U+0570", "U+0571", "U+0572", "U+0573", "U+0574", "U+0575", "U+0576", "U+0577", "U+0578", "U+0579", "U+057A", "U+057B", "U+057C", "U+057D", "U+057E", "U+057F",
    "ր", "ց", "ւ", "փ", "ք", "օ", "ֆ", "և", "ֈ", "։", "֊", "֋", "֌", "֍", "֎", "֏",
    "֐", "֑", "֒", "֓", "֔", "֕", "֖", "֗", "֘", "֙", "֚", "֛", "֜", "֝", "֞", "֟",
    "֠", "֡", "֢", "֣", "֤", "֥", "֦", "֧", "֨", "֩", "֪", "֫", "֬", "֭", "֮", "֯",
    "ְ", "ֱ", "ֲ", "ֳ", "ִ", "ֵ", "ֶ", "ַ", "ָ", "ֹ", "ֺ", "ֻ", "ּ", "ֽ", "־", "ֿ",
    "׀", "ׁ", "ׂ", "׃", "ׄ", "ׅ", "׆", "ׇ", "׈", "׉", "׊", "׋", "׌", "׍", "׎", "׏",
    "א", "ב", "ג", "ד", "ה", "ו", "ז", "ח", "ט", "י", "ך", "כ", "ל", "ם", "מ", "ן",
    "נ", "ס", "ע", "ף", "פ", "ץ", "צ", "ק", "ר", "ש", "ת", "׫", "׬", "׭", "׮", "ׯ",
    "װ", "ױ", "ײ", "׳", "״", "׵", "׶", "׷", "׸", "׹", "׺", "׻", "׼", "׽", "׾", "׿",
    "U+0600", "U+0601", "U+0602", "U+0603", "U+0604", "U+0605", "U+0606", "U+0607", "U+0608", "U+0609", "U+060A", "U+060B", "U+060C", "U+060D", "U+060E", "U+060F",
    "U+0610", "U+0611", "U+0612", "U+0613", "U+0614", "U+0615", "U+0616", "U+0617", "U+0618", "U+0619", "U+061A", "U+061B", "U+061C", "U+061D", "U+061E", "U+061F",
    "U+0620", "U+0621", "U+0622", "U+0623", "U+0624", "U+0625", "U+0626", "U+0627", "U+0628", "U+0629", "U+062A", "U+062B", "U+062C", "U+062D", "U+062E", "U+062F",
    "U+0630", "U+0631", "U+0632", "U+0633", "U+0634", "U+0635", "U+0636", "U+0637", "U+0638", "U+0639", "U+063A", "U+063B", "U+063C", "U+063D", "U+063E", "U+063F",
    "U+0640", "U+0641", "U+0642", "U+0643", "U+0644", "U+0645", "U+0646", "U+0647", "U+0648", "U+0649", "U+064A", "U+064B", "U+064C", "U+064D", "U+064E", "U+064F",
    "U+0650", "U+0651", "U+0652", "U+0653", "U+0654", "U+0655", "U+0656", "U+0657", "U+0658", "U+0659", "U+065A", "U+065B", "U+065C", "U+065D", "U+065E", "U+065F",
    "U+0660", "U+0661", "U+0662", "U+0663", "U+0664", "U+0665", "U+0666", "U+0667", "U+0668", "U+0669", "U+066A", "U+066B", "U+066C", "U+066D", "U+066E", "U+066F",
    "U+0670", "U+0671", "U+0672", "U+0673", "U+0674", "U+0675", "U+0676", "U+0677", "U+0678", "U+0679", "U+067A", "U+067B", "U+067C", "U+067D", "U+067E", "U+067F",
    "ڀ", "ځ", "ڂ", "ڃ", "ڄ", "څ", "چ", "ڇ", "ڈ", "ډ", "ڊ", "ڋ", "ڌ", "ڍ", "ڎ", "ڏ",
    "ڐ", "ڑ", "ڒ", "ړ", "ڔ", "ڕ", "ږ", "ڗ", "ژ", "ڙ", "ښ", "ڛ", "ڜ", "ڝ", "ڞ", "ڟ",
    "ڠ", "ڡ", "ڢ", "ڣ", "ڤ", "ڥ", "ڦ", "ڧ", "ڨ", "ک", "ڪ", "ګ", "ڬ", "ڭ", "ڮ", "گ",
    "ڰ", "ڱ", "ڲ", "ڳ", "ڴ", "ڵ", "ڶ", "ڷ", "ڸ", "ڹ", "ں", "ڻ", "ڼ", "ڽ", "ھ", "ڿ",
    "ۀ", "ہ", "ۂ", "ۃ", "ۄ", "ۅ", "ۆ", "ۇ", "ۈ", "ۉ", "ۊ", "ۋ", "ی", "ۍ", "ێ", "ۏ",
    "ې", "ۑ", "ے", "ۓ", "۔", "ە", "ۖ", "ۗ", "ۘ", "ۙ", "ۚ", "ۛ", "ۜ", "۝", "۞", "۟",
    "۠", "ۡ", "ۢ", "ۣ", "ۤ", "ۥ", "ۦ", "ۧ", "ۨ", "۩", "۪", "۫", "۬", "ۭ", "ۮ", "ۯ",
    "۰", "۱", "۲", "۳", "۴", "۵", "۶", "۷", "۸", "۹", "ۺ", "ۻ", "ۼ", "۽", "۾", "ۿ",
    "U+0700", "U+0701", "U+0702", "U+0703", "U+0704", "U+0705", "U+0706", "U+0707", "U+0708", "U+0709", "U+070A", "U+070B", "U+070C", "U+070D", "U+070E", "U+070F",
    "U+0710", "U+0711", "U+0712", "U+0713", "U+0714", "U+0715", "U+0716", "U+0717", "U+0718", "U+0719", "U+071A", "U+071B", "U+071C", "U+071D", "U+071E", "U+071F",
    "U+0720", "U+0721", "U+0722", "U+0723", "U+0724", "U+0725", "U+0726", "U+0727", "U+0728", "U+0729", "U+072A", "U+072B", "U+072C", "U+072D", "U+072E", "U+072F",
    "U+0730", "U+0731", "U+0732", "U+0733", "U+0734", "U+0735", "U+0736", "U+0737", "U+0738", "U+0739", "U+073A", "U+073B", "U+073C", "U+073D", "U+073E", "U+073F",
    "U+0740", "U+0741", "U+0742", "U+0743", "U+0744", "U+0745", "U+0746", "U+0747", "U+0748", "U+0749", "U+074A", "U+074B", "U+074C", "U+074D", "U+074E", "U+074F",
    "U+0750", "U+0751", "U+0752", "U+0753", "U+0754", "U+0755", "U+0756", "U+0757", "U+0758", "U+0759", "U+075A", "U+075B", "U+075C", "U+075D", "U+075E", "U+075F",
    "U+0760", "U+0761", "U+0762", "U+0763", "U+0764", "U+0765", "U+0766", "U+0767", "U+0768", "U+0769", "U+076A", "U+076B", "U+076C", "U+076D", "U+076E", "U+076F",
    "U+0770", "U+0771", "U+0772", "U+0773", "U+0774", "U+0775", "U+0776", "U+0777", "U+0778", "U+0779", "U+077A", "U+077B", "U+077C", "U+077D", "U+077E", "U+077F",
    "ހ", "ށ", "ނ", "ރ", "ބ", "ޅ", "ކ", "އ", "ވ", "މ", "ފ", "ދ", "ތ", "ލ", "ގ", "ޏ",
    "ސ", "ޑ", "ޒ", "ޓ", "ޔ", "ޕ", "ޖ", "ޗ", "ޘ", "ޙ", "ޚ", "ޛ", "ޜ", "ޝ", "ޞ", "ޟ",
    "ޠ", "ޡ", "ޢ", "ޣ", "ޤ", "ޥ", "ަ", "ާ", "ި", "ީ", "ު", "ޫ", "ެ", "ޭ", "ޮ", "ޯ",
    "ް", "ޱ", "޲", "޳", "޴", "޵", "޶", "޷", "޸", "޹", "޺", "޻", "޼", "޽", "޾", "޿",
    "߀", "߁", "߂", "߃", "߄", "߅", "߆", "߇", "߈", "߉", "ߊ", "ߋ", "ߌ", "ߍ", "ߎ", "ߏ",
    "ߐ", "ߑ", "ߒ", "ߓ", "ߔ", "ߕ", "ߖ", "ߗ", "ߘ", "ߙ", "ߚ", "ߛ", "ߜ", "ߝ", "ߞ", "ߟ",
    "ߠ", "ߡ", "ߢ", "ߣ", "ߤ", "ߥ", "ߦ", "ߧ", "ߨ", "ߩ", "ߪ", "߫", "߬", "߭", "߮", "߯",
    "߰", "߱", "߲", "߳", "ߴ", "ߵ", "߶", "߷", "߸", "߹", "ߺ", "߻", "߼", "߽", "߾", "߿"
>>

\* char::from_u32 for a scalar value n.
CharOf(n) == IF n < Len(CodeChars) THEN CodeChars[n + 1] ELSE CodeName(n)

\* char::is_whitespace, the characters with the property White_Space:
\* U+0009..U+000D, U+0020, U+0085, U+00A0, U+1680, U+2000..U+200A, U+2028,
\* U+2029, U+202F, U+205F, U+3000.
WhiteSpaceCodes ==
    (9..13) \cup {32, 133, 160, 5760} \cup (8192..8202) \cup {8232, 8233, 8239, 8287, 12288}

WhiteSpace ==
    {CodeName(n) : n \in WhiteSpaceCodes} \cup
    {"\t", "\n", "", "\f", "\r", " ", "", " ", " ",
     "U+2000", "U+2001", "U+2002", "U+2003", "U+2004", "U+2005", "U+2006", "U+2007",
     "U+2008", "U+2009", "U+200A", "U+2028", "U+2029", "U+202F", "U+205F", "U+3000"}

\* char::len_utf8: one byte up to U+007F, two up to U+07FF, three up to
\* U+FFFF, four above; a code point above U+FFFF has a name of more than four
\* digits.
OneByteChars == {CodeChars[n + 1] : n \in 0..127} \cup {CodeName(n) : n \in 0..127}
TwoByteChars == {CodeChars[n + 1] : n \in 128..2047} \cup {CodeName(n) : n \in 128..2047}

CharBytes(c) ==
    IF c \in OneByteChars THEN 1
    ELSE IF c \in TwoByteChars THEN 2
    ELSE IF Len(c) > 6 THEN 4
    ELSE 3

RECURSIVE ByteLen(_)
\* str::len: the length of a string in bytes.
ByteLen(s) == IF s = <<>> THEN 0 ELSE CharBytes(Head(s)) + ByteLen(Tail(s))

\* str::is_char_boundary: n bytes into s a character ends.
is_char_boundary(s, n) == \E k \in 0..Len(s) : ByteLen(SubSeq(s, 1, k)) = n

\* &s[..n] where n is a character boundary of s.
ByteSlice(s, n) == SubSeq(s, 1, CHOOSE k \in 0..Len(s) : ByteLen(SubSeq(s, 1, k)) = n)

\* The first n bytes of the character c, where a character of more than n
\* bytes was cut: no character, and no UTF-8 text.
Torn(c, n) == c \o "/" \o ToString(n)

\* std::str::from_utf8 accepts the bytes: none of them is a cut character.
from_utf8_ok(bytes) ==
    \A i \in 1..Len(bytes) :
        Len(bytes[i]) = 1 \/ SubSeq(bytes[i], Len(bytes[i]) - 1, Len(bytes[i]) - 1) # "/"

RECURSIVE TrimStart(_)
TrimStart(s) ==
    IF Len(s) > 0 /\ s[1] \in WhiteSpace THEN TrimStart(Tail(s)) ELSE s

RECURSIVE TrimEnd(_)
TrimEnd(s) ==
    IF Len(s) > 0 /\ s[Len(s)] \in WhiteSpace
    THEN TrimEnd(SubSeq(s, 1, Len(s) - 1)) ELSE s

\* str::trim
Trim(s) == TrimEnd(TrimStart(s))

\* char::is_ascii_hexdigit
HexDigits ==
    {"0", "1", "2", "3", "4", "5", "6", "7", "8", "9",
     "a", "b", "c", "d", "e", "f", "A", "B", "C", "D", "E", "F"}

is_ascii_hexdigit(c) == c \in HexDigits

(***************************************************************************)
(* Reference Parser.                                                       *)
(***************************************************************************)
NoRef == [some |-> FALSE]

ActionReference(owner, repo, reference) ==
    [some |-> TRUE, owner |-> owner, repo |-> repo, reference |-> reference]

\* A mutant of IsPinnedSha: the length of the reference is not looked at.
IsPinnedShaAnyLength(reference) ==
    \A i \in 1..Len(reference) : is_ascii_hexdigit(reference[i])

IsPinnedSha(reference) ==
    ByteLen(reference) = ShaLen /\ \A i \in 1..Len(reference) : is_ascii_hexdigit(reference[i])

parse_uses_string(uses) ==
    LET uses_clean == Trim(Split(uses, "#")[1])
        parts == Split(uses_clean, "@")
    IN  IF Len(parts) # 2 THEN NoRef
        ELSE LET reference == Trim(parts[2])
                 repo_parts == Split(parts[1], "/")
             IN  IF IsPinnedSha(reference) THEN NoRef
                 ELSE IF Len(repo_parts) < 2 THEN NoRef
                 ELSE ActionReference(repo_parts[1], Join(Tail(repo_parts), "/"),
                                      reference)

(***************************************************************************)
(* Names, commit identifiers and the answers of the Remote Lookup Service. *)
(***************************************************************************)
Owner == <<"a">>
Repo == <<"b">>
V4 == <<"v", "4">>
V41 == <<"v", "4", ".", "1">>
V5 == <<"v", "5">>
\* A short commit reference, the first ten characters of ShaA.
Abc == <<"a", "b", "c", "1", "2", "3", "4", "5", "6", "7">>
\* A commit reference shorter than the 7 characters of the no-op check, the
\* first six characters of ShaA.
Abc123 == <<"a", "b", "c", "1", "2", "3">>
Digits10 == <<"8", "9", "0", "1", "2", "3", "4", "5", "6", "7">>
\* abc1234567890123456789012345678901234567
ShaA == Abc \o Digits10 \o Digits10 \o Digits10
\* 11111111111111111111111111111111111111ab
ShaB == Rep("1", 38) \o <<"a", "b">>
\* An identifier shorter than the 7 characters the no-op check slices.
ShaShort == <<"a", "b", "c", "1", "2">>
\* An identifier of 20 characters that take two bytes each: 40 bytes, the
\* 7th of them inside a character.
ShaWide == Rep("é", 20)

\* The tag names a latest release can carry.
ReleaseTags == {V5}
\* The object identifiers a tag reference can point at.
TagObjects == {ShaB, ShaShort, ShaWide}

\* One HTTP exchange: the request failed in transport, came back with a
\* non-success status, came back successful with a body that does not
\* deserialize, or came back successful with the expected JSON.
Failure(kind) == [kind |-> kind, value |-> <<>>, type |-> "none"]
Success(value, type) == [kind |-> "ok", value |-> value, type |-> type]
FailureKinds == {"transport", "status", "badjson"}

ReleaseResp == {Failure(k) : k \in FailureKinds} \cup {Success(t, "release") : t \in ReleaseTags}
TagResp ==
    {Failure(k) : k \in FailureKinds}
    \cup {Success(ShaB, "commit"), Success(ShaB, "tag"), Success(ShaShort, "commit"),
          Success(ShaWide, "tag")}
DerefResp == {Failure(k) : k \in FailureKinds} \cup {Success(ShaA, "commit")}
CommitResp == {Failure(k) : k \in FailureKinds} \cup {Success(ShaA, "commit")}

\* A lookup service answering for owner/repo and the ref names `names`: one
\* answer per URL the program can request.
Services(owner, repo, names) ==
    [release : [{<<owner, repo>>} -> ReleaseResp],
     tag : [{<<owner, repo, n>> : n \in names} -> TagResp],
     deref : [{<<owner, repo, o>> : o \in {t \in TagObjects : ByteLen(t) = ShaLen}} -> DerefResp],
     commit : [{<<owner, repo, n>> : n \in names} -> CommitResp]]

Call(op, key) == [op |-> op, key |-> key]

(***************************************************************************)
(* Resolver.                                                               *)
(***************************************************************************)
ShaOk(sha, calls) == [ok |-> TRUE, sha |-> sha, err |-> "none", calls |-> calls]
ShaErr(err, calls) == [ok |-> FALSE, sha |-> <<>>, err |-> err, calls |-> calls]

\* client.get(url).send() returned Ok(response).
Sent(response) == response.kind # "transport"

\* response.status().is_success() of a response that arrived.
StatusIsSuccess(response) == response.kind \in {"ok", "badjson"}

\* response.json()?: the body read as the expected JSON, or the decode error.
Json(response, calls) ==
    IF response.kind = "ok" THEN ShaOk(response.value, calls)
    ELSE ShaErr("decode", calls)

\* The tag-object dereference: the tag's object is looked up as a tag object
\* when its identifier is 40 bytes long, whatever its type.
DerefTag(svc, owner, repo, tag_sha, calls) ==
    IF ByteLen(tag_sha) = ShaLen
    THEN LET resp == svc.deref[<<owner, repo, tag_sha>>]
             calls2 == Append(calls, Call("deref", <<owner, repo, tag_sha>>))
         IN  IF Sent(resp) /\ StatusIsSuccess(resp)
             THEN Json(resp, calls2)
             ELSE ShaOk(tag_sha, calls2)
    ELSE ShaOk(tag_sha, calls)

\* A mutant of CommitForRef: no request is made, the lookup bails at once.
CommitForRefNotTried(svc, owner, repo, ref_name, calls) == ShaErr("http", calls)

\* The branch-or-commit fallback.
CommitForRef(svc, owner, repo, ref_name, calls) ==
    LET response == svc.commit[<<owner, repo, ref_name>>]
        calls2 == Append(calls, Call("commit", <<owner, repo, ref_name>>))
    IN  IF ~Sent(response) THEN ShaErr("transport", calls2)
        ELSE IF StatusIsSuccess(response) THEN Json(response, calls2)
        ELSE ShaErr("http", calls2)

get_sha_for_ref_with_base(svc, owner, repo, ref_name) ==
    LET response == svc.tag[<<owner, repo, ref_name>>]
        calls == <<Call("tag", <<owner, repo, ref_name>>)>>
    IN  IF ~Sent(response) THEN ShaErr("transport", calls)
        ELSE IF StatusIsSuccess(response)
        THEN LET tag == Json(response, calls)
             IN  IF tag.ok THEN DerefTag(svc, owner, repo, tag.sha, calls) ELSE tag
        ELSE CommitForRef(svc, owner, repo, ref_name, calls)

\* Result<(String, String)> of the resolver, with the requests it made.
Resolved(r, label, calls) ==
    [ok |-> r.ok, sha |-> r.sha, label |-> IF r.ok THEN label ELSE <<>>,
     err |-> r.err, calls |-> calls \o r.calls]

\* A mutant of PinPath: the commit identifier is returned as the label too.
PinPathShaAsLabel(svc, action_ref, calls) ==
    LET r == get_sha_for_ref_with_base(svc, action_ref.owner, action_ref.repo,
                                       action_ref.reference)
    IN  Resolved(r, r.sha, calls)

\* "Get SHA for the current reference".
PinPath(svc, action_ref, calls) ==
    Resolved(get_sha_for_ref_with_base(svc, action_ref.owner, action_ref.repo,
                                       action_ref.reference),
             action_ref.reference, calls)

\* A mutant of LatestPath: the original reference is resolved, not the tag.
LatestPathOldRef(svc, action_ref, response, calls) ==
    IF response.kind # "ok" THEN Resolved(ShaErr("decode", calls), <<>>, <<>>)
    ELSE LET tag == response.value
         IN  Resolved(get_sha_for_ref_with_base(svc, action_ref.owner, action_ref.repo,
                                                action_ref.reference),
                      tag, calls)

\* The latest release was found: its body is read (resp.json()?) and the
\* SHA is looked up for its tag_name.
LatestPath(svc, action_ref, response, calls) ==
    IF response.kind # "ok" THEN Resolved(ShaErr("decode", calls), <<>>, <<>>)
    ELSE LET tag == response.value
         IN  Resolved(get_sha_for_ref_with_base(svc, action_ref.owner, action_ref.repo,
                                                tag),
                      tag, calls)

\* A mutant of ReleaseFound: the status of the release response is not looked at.
ReleaseFoundAnyStatus(response) == Sent(response)

\* The arm `Ok(resp) if resp.status().is_success()` of the release lookup.
ReleaseFound(response) == Sent(response) /\ StatusIsSuccess(response)

resolve_reference_with_client(svc, action_ref, update) ==
    IF update
    THEN LET response == svc.release[<<action_ref.owner, action_ref.repo>>]
             calls == <<Call("release", <<action_ref.owner, action_ref.repo>>)>>
         IN  IF ReleaseFound(response)
             THEN LatestPath(svc, action_ref, response, calls)
             ELSE PinPath(svc, action_ref, calls)
    ELSE PinPath(svc, action_ref, <<>>)

(***************************************************************************)
(* Workflow documents as serde_yaml reads them: all of this section, up to *)
(* the Document Scanner, is the call serde_yaml::from_str(content) of      *)
(* find_action_references.  It hands the text to the scanner and the       *)
(* parser of libyaml, loads the events of the first document, resolves     *)
(* anchors and aliases, and builds a Value from them; a second document in *)
(* the text is an error.                                                   *)
(***************************************************************************)
Null == [kind |-> "null", str |-> <<>>, items |-> <<>>]
Bool(s) == [kind |-> "bool", str |-> s, items |-> <<>>]
Number(s) == [kind |-> "num", str |-> s, items |-> <<>>]
Scalar(s) == [kind |-> "str", str |-> s, items |-> <<>>]
Mapping(entries) == [kind |-> "map", str |-> <<>>, items |-> entries]
Sequence(items) == [kind |-> "seq", str |-> <<>>, items |-> items]
Tagged(tag, value) == [kind |-> "tagged", str |-> tag, items |-> <<value>>]

RECURSIVE Steps(_, _, _, _), Loop(_, _, _, _)
\* A loop of the code: Step is its body and Ended its exit condition.  The
\* body is applied 1, 2, 4, ... times in a row, so that a loop of many
\* rounds is not a deep recursion.
Steps(Step(_), Ended(_), x, k) ==
    IF Ended(x) THEN x
    ELSE IF k = 0 THEN Step(x)
    ELSE Steps(Step, Ended, Steps(Step, Ended, x, k - 1), k - 1)

Loop(Step(_), Ended(_), x, k) ==
    IF Ended(x) THEN x ELSE Loop(Step, Ended, Steps(Step, Ended, x, k), k + 1)

Repeat(Step(_), Ended(_), x) == Loop(Step, Ended, x, 0)

\* A loop that knows it has ended only after a round: what it is at, and
\* whether the round was the last one.
Going(x) == [at |-> x, done |-> FALSE]
Ending(x) == [at |-> x, done |-> TRUE]
IsDone(w) == w.done

\* The least element of a set of indices, 0 for the empty set.
FirstOf(S) == IF S = {} THEN 0 ELSE CHOOSE i \in S : \A j \in S : i <= j

(***************************************************************************)
(* The reader: the characters of the text and their classes.               *)
(***************************************************************************)
EndOfInput == "EOF"

\* The character at index i, the end of the input behind the last one.
CharAt(s, i) == IF i >= 1 /\ i <= Len(s) THEN s[i] ELSE EndOfInput

\* Both ways of writing the character of code point n.
Written(n) == {CharOf(n), CodeName(n)}

LineSeparators == Written(8232) \cup Written(8233)
NextLine == Written(133)
LineBreaks == {"\r", "\n"} \cup NextLine \cup LineSeparators
ByteOrderMark == {"U+FEFF", "﻿"}

\* yaml_parser_update_buffer: the characters that are "control characters
\* are not allowed": all but U+0009, U+000A, U+000D, U+0020..U+007E, U+0085,
\* U+00A0..U+D7FF, U+E000..U+FFFD and U+10000..U+10FFFF.
ControlCodes == (0..8) \cup {11, 12} \cup (14..31) \cup (127..132) \cup (134..159)
NotAllowed == UNION {Written(n) : n \in ControlCodes} \cup {"U+FFFE", "U+FFFF"}

Digits == {"0", "1", "2", "3", "4", "5", "6", "7", "8", "9"}
Letters ==
    {"a", "b", "c", "d", "e", "f", "g", "h", "i", "j", "k", "l", "m",
     "n", "o", "p", "q", "r", "s", "t", "u", "v", "w", "x", "y", "z",
     "A", "B", "C", "D", "E", "F", "G", "H", "I", "J", "K", "L", "M",
     "N", "O", "P", "Q", "R", "S", "T", "U", "V", "W", "X", "Y", "Z"}

IS_Z(c) == c = EndOfInput
IS_BREAK(c) == c \in LineBreaks
IS_BREAKZ(c) == IS_BREAK(c) \/ IS_Z(c)
IS_SPACE(c) == c = " "
IS_TAB(c) == c = "\t"
IS_BLANK(c) == c \in {" ", "\t"}
IS_BLANKZ(c) == IS_BLANK(c) \/ IS_BREAKZ(c)
IS_DIGIT(c) == c \in Digits
IS_ALPHA(c) == c \in Digits \cup Letters \cup {"_", "-"}
IS_HEX(c) == c \in HexDigits
IS_BOM(c) == c \in ByteOrderMark

LowerHexNames ==
    <<"0", "1", "2", "3", "4", "5", "6", "7", "8", "9", "a", "b", "c", "d", "e", "f">>

AS_HEX(c) == CHOOSE n \in 0..15 : c \in {HexDigitNames[n + 1], LowerHexNames[n + 1]}
AS_DIGIT(c) == AS_HEX(c)

\* The first index from i on whose character is not in the class Ok; the end
\* of the input is in no class.
RunEnd(s, i, Ok(_)) ==
    CHOOSE k \in i..(Len(s) + 1) :
        /\ (k > Len(s) \/ ~Ok(s[k]))
        /\ \A j \in i..(k - 1) : Ok(s[j])

\* "---" or "..." followed by a blank, a break or the end.
DocumentIndicatorAt(s, i) ==
    /\ \/ CharAt(s, i) = "-" /\ CharAt(s, i + 1) = "-" /\ CharAt(s, i + 2) = "-"
       \/ CharAt(s, i) = "." /\ CharAt(s, i + 1) = "." /\ CharAt(s, i + 2) = "."
    /\ IS_BLANKZ(CharAt(s, i + 3))

\* The width of the line break at index i: CR LF is one break.
BreakWidth(s, i) == IF s[i] = "\r" /\ CharAt(s, i + 1) = "\n" THEN 2 ELSE 1

\* READ_LINE: CR LF, CR, LF and NEL are read as LF, LS and PS as themselves.
READ_LINE(s, i) == IF s[i] \in LineSeparators THEN <<s[i]>> ELSE <<"\n">>

(***************************************************************************)
(* The scanner (libyaml scanner.c): the text to tokens.                    *)
(***************************************************************************)
Token(type, value, aux, style) ==
    [type |-> type, value |-> value, aux |-> aux, style |-> style]

Mark(type) == Token(type, <<>>, <<>>, "none")

NoKey == [possible |-> FALSE, required |-> FALSE, token_number |-> 0,
          index |-> 0, line |-> 0, col |-> 0]

\* The scanner after yaml_parser_fetch_stream_start.
ScannerStart ==
    [i |-> 1, line |-> 0, col |-> 0, flow_level |-> 0, indent |-> -1, indents |-> <<>>,
     simple_key_allowed |-> TRUE, simple_keys |-> <<NoKey>>,
     tokens |-> <<Mark("STREAM-START")>>, error |-> FALSE, done |-> FALSE]

Fail(p) == [p EXCEPT !.error = TRUE]
SKIP(p, n) == [p EXCEPT !.i = @ + n, !.col = @ + n]
SKIP_LINE(s, p) == [p EXCEPT !.i = @ + BreakWidth(s, p.i), !.col = 0, !.line = @ + 1]
ENQUEUE(p, token) == [p EXCEPT !.tokens = Append(@, token)]

\* QUEUE_INSERT at token number n, counted from 0.
InsertAt(tokens, n, token) ==
    SubSeq(tokens, 1, n) \o <<token>> \o SubSeq(tokens, n + 1, Len(tokens))

TopKey(p) == p.simple_keys[Len(p.simple_keys)]
SetTopKey(p, key) == [p EXCEPT !.simple_keys = [@ EXCEPT ![Len(@)] = key]]

\* A possible simple key is limited to one line and to 1024 characters.
StaleKey(p, key) ==
    key.possible /\ (key.line < p.line \/ key.index + 1024 < p.i - 1)

yaml_parser_stale_simple_keys(p) ==
    IF p.error THEN p
    ELSE IF \E k \in 1..Len(p.simple_keys) :
                StaleKey(p, p.simple_keys[k]) /\ p.simple_keys[k].required
         THEN Fail(p)
         ELSE [p EXCEPT !.simple_keys =
                  [k \in 1..Len(@) |->
                      IF StaleKey(p, @[k]) THEN [@[k] EXCEPT !.possible = FALSE] ELSE @[k]]]

yaml_parser_remove_simple_key(p) ==
    IF p.error THEN p
    ELSE IF TopKey(p).possible /\ TopKey(p).required THEN Fail(p)
         ELSE SetTopKey(p, [TopKey(p) EXCEPT !.possible = FALSE])

yaml_parser_save_simple_key(p) ==
    IF p.error \/ ~p.simple_key_allowed THEN p
    ELSE IF TopKey(p).possible /\ TopKey(p).required THEN Fail(p)
         ELSE SetTopKey(p, [possible |-> TRUE,
                            required |-> p.flow_level = 0 /\ p.indent = p.col,
                            token_number |-> Len(p.tokens),
                            index |-> p.i - 1, line |-> p.line, col |-> p.col])

yaml_parser_increase_flow_level(p) ==
    IF p.error THEN p
    ELSE [p EXCEPT !.simple_keys = Append(@, NoKey), !.flow_level = @ + 1]

yaml_parser_decrease_flow_level(p) ==
    IF p.error \/ p.flow_level = 0 THEN p
    ELSE [p EXCEPT !.simple_keys = SubSeq(@, 1, Len(@) - 1), !.flow_level = @ - 1]

\* number is the token number to insert at, -1 to append.
yaml_parser_roll_indent(p, column, number, type) ==
    IF p.error \/ p.flow_level > 0 \/ p.indent >= column THEN p
    ELSE [p EXCEPT !.indents = Append(@, p.indent),
                   !.indent = column,
                   !.tokens = IF number = -1 THEN Append(@, Mark(type))
                              ELSE InsertAt(@, number, Mark(type))]

RECURSIVE yaml_parser_unroll_indent(_, _)
yaml_parser_unroll_indent(p, column) ==
    IF p.error \/ p.flow_level > 0 \/ p.indent <= column THEN p
    ELSE yaml_parser_unroll_indent(
             [p EXCEPT !.tokens = Append(@, Mark("BLOCK-END")),
                       !.indent = p.indents[Len(p.indents)],
                       !.indents = SubSeq(@, 1, Len(@) - 1)],
             column)

Allow(p, allowed) == IF p.error THEN p ELSE [p EXCEPT !.simple_key_allowed = allowed]

\* Spaces are eaten, and tabs too in the flow context or where a simple key
\* may not start.
SkipBlanks(s, p) ==
    LET Eaten(c) == c = " " \/ ((p.flow_level > 0 \/ ~p.simple_key_allowed) /\ c = "\t")
    IN  SKIP(p, RunEnd(s, p.i, Eaten) - p.i)

SkipBom(s, p) == IF p.col = 0 /\ IS_BOM(CharAt(s, p.i)) THEN SKIP(p, 1) ELSE p

NotBreak(c) == ~IS_BREAK(c)

SkipComment(s, p) ==
    IF CharAt(s, p.i) = "#" THEN SKIP(p, RunEnd(s, p.i, NotBreak) - p.i) ELSE p

\* "If it is a line break, eat it", and go round again.
AfterLine(s, p) ==
    IF IS_BREAK(CharAt(s, p.i))
    THEN Going([SKIP_LINE(s, p) EXCEPT !.simple_key_allowed = @ \/ p.flow_level = 0])
    ELSE Ending(p)

yaml_parser_scan_to_next_token(s, p) ==
    Repeat(LAMBDA w : AfterLine(s, SkipComment(s, SkipBlanks(s, SkipBom(s, w.at)))),
           IsDone, Going(p)).at

(***************************************************************************)
(* Scalars.  q is the scanner's position and its string buffers.           *)
(***************************************************************************)
ScalarStart(p) ==
    [i |-> p.i, line |-> p.line, col |-> p.col, string |-> <<>>,
     leading_break |-> <<>>, trailing_breaks |-> <<>>, whitespaces |-> <<>>,
     leading_blanks |-> FALSE, error |-> FALSE]

QFail(q) == [q EXCEPT !.error = TRUE]
QSkip(q, n) == [q EXCEPT !.i = @ + n, !.col = @ + n]
QRead(s, q, n) ==
    [q EXCEPT !.i = @ + n, !.col = @ + n, !.string = @ \o SubSeq(s, q.i, q.i + n - 1)]
QPut(q, n, text) == [q EXCEPT !.i = @ + n, !.col = @ + n, !.string = @ \o text]

\* The scanner after a scalar: the token is appended.
ScalarDone(p, q, style, allowed) ==
    IF q.error THEN Fail(p)
    ELSE [p EXCEPT !.i = q.i, !.line = q.line, !.col = q.col,
                   !.simple_key_allowed = allowed,
                   !.tokens = Append(@, Token("SCALAR", q.string, <<>>, style))]

\* One blank or one line break of a plain or a quoted scalar.  A tab before
\* column tab_limit of a continuation line is an error of a plain scalar.
ScanBlank(s, tab_limit, q) ==
    IF IS_BLANK(CharAt(s, q.i))
    THEN IF q.leading_blanks /\ q.col < tab_limit /\ IS_TAB(s[q.i]) THEN QFail(q)
         ELSE [q EXCEPT !.i = @ + 1, !.col = @ + 1,
                        !.whitespaces = IF q.leading_blanks THEN @ ELSE Append(@, s[q.i])]
    ELSE [q EXCEPT !.i = @ + BreakWidth(s, q.i), !.col = 0, !.line = @ + 1,
                   !.whitespaces = IF q.leading_blanks THEN @ ELSE <<>>,
                   !.leading_break = IF q.leading_blanks THEN @ ELSE READ_LINE(s, q.i),
                   !.trailing_breaks = IF q.leading_blanks THEN @ \o READ_LINE(s, q.i) ELSE @,
                   !.leading_blanks = TRUE]

\* "Consume blank characters."
ScanBlanks(s, tab_limit, q) ==
    Repeat(LAMBDA x : ScanBlank(s, tab_limit, x),
           LAMBDA x : x.error \/ ~(IS_BLANK(CharAt(s, x.i)) \/ IS_BREAK(CharAt(s, x.i))),
           q)

\* "Join the whitespaces or fold line breaks": one break folds to a space,
\* more breaks keep all but the first.
Joined(q) ==
    IF q.leading_blanks
    THEN IF q.leading_break # <<>> /\ q.leading_break[1] = "\n"
         THEN IF q.trailing_breaks = <<>> THEN <<" ">> ELSE q.trailing_breaks
         ELSE q.leading_break \o q.trailing_breaks
    ELSE q.whitespaces

Fold(q) ==
    [q EXCEPT !.string = @ \o Joined(q), !.leading_break = <<>>,
              !.trailing_breaks = <<>>, !.whitespaces = <<>>, !.leading_blanks = FALSE]

FlowIndicators == {",", "[", "]", "{", "}"}

\* "Consume non-blank characters" of a plain scalar.
PlainChars(s, flow, q) ==
    LET Unexpected(k) ==
            flow /\ s[k] = ":" /\ CharAt(s, k + 1) \in FlowIndicators \cup {"?"}
        Ends(k) ==
            \/ s[k] = ":" /\ IS_BLANKZ(CharAt(s, k + 1))
            \/ flow /\ s[k] \in FlowIndicators
        Stops(k) == IS_BLANKZ(s[k]) \/ Unexpected(k) \/ Ends(k)
        End(e) ==
            IF e <= Len(s) /\ ~IS_BLANKZ(s[e]) /\ Unexpected(e) THEN QFail(q)
            ELSE IF e = q.i THEN q
                 ELSE QRead(s, Fold(q), e - q.i)
    IN  End(CHOOSE e \in q.i..(Len(s) + 1) :
                /\ (e > Len(s) \/ Stops(e))
                /\ \A j \in q.i..(e - 1) : ~Stops(j))

\* "Check indentation level."
AfterPlainBlanks(s, flow, indent, q) ==
    IF q.error \/ (~flow /\ q.col < indent) THEN Ending(q) ELSE Going(q)

\* "Is it the end?"
AfterPlainChars(s, flow, indent, q) ==
    IF q.error \/ ~(IS_BLANK(CharAt(s, q.i)) \/ IS_BREAK(CharAt(s, q.i))) THEN Ending(q)
    ELSE AfterPlainBlanks(s, flow, indent, ScanBlanks(s, indent, q))

\* One round: "check for a document indicator", "check for a comment", the
\* characters, the blanks.
PlainRound(s, flow, indent, q) ==
    IF (q.col = 0 /\ DocumentIndicatorAt(s, q.i)) \/ CharAt(s, q.i) = "#" THEN Ending(q)
    ELSE AfterPlainChars(s, flow, indent, PlainChars(s, flow, q))

PlainLoop(s, flow, indent, q) ==
    Repeat(LAMBDA w : PlainRound(s, flow, indent, w.at), IsDone, Going(q)).at

PlainDone(p, q) == ScalarDone(p, q, "plain", p.simple_key_allowed \/ q.leading_blanks)

yaml_parser_scan_plain_scalar(s, p) ==
    PlainDone(p, PlainLoop(s, p.flow_level > 0, p.indent + 1, ScalarStart(p)))

\* The escapes of a double-quoted scalar that stand for one character.
EscapeCodes ==
    [c \in {"0", "a", "b", "t", "\t", "n", "v", "f", "r", "e", " ", "\"", "/", "\\",
            "N", "_", "L", "P"} |->
        CASE c = "0" -> 0 [] c = "a" -> 7 [] c = "b" -> 8 [] c \in {"t", "\t"} -> 9
          [] c = "n" -> 10 [] c = "v" -> 11 [] c = "f" -> 12 [] c = "r" -> 13
          [] c = "e" -> 27 [] c = " " -> 32 [] c = "\"" -> 34 [] c = "/" -> 47
          [] c = "\\" -> 92 [] c = "N" -> 133 [] c = "_" -> 160 [] c = "L" -> 8232
          [] c = "P" -> 8233]

CodeLengths == [c \in {"x", "u", "U"} |-> CASE c = "x" -> 2 [] c = "u" -> 4 [] c = "U" -> 8]

RECURSIVE HexValue(_)
\* The number a string of hexadecimal digits writes.
HexValue(digits) ==
    IF digits = <<>> THEN 0
    ELSE 16 * HexValue(SubSeq(digits, 1, Len(digits) - 1)) + AS_HEX(digits[Len(digits)])

RECURSIVE LeadingZeros(_)
LeadingZeros(digits) ==
    IF digits # <<>> /\ digits[1] = "0" THEN 1 + LeadingZeros(Tail(digits)) ELSE 0

\* "found invalid Unicode character escape code": a surrogate or a value
\* above 0x10FFFF.
ValidCode(digits) ==
    /\ Len(digits) - LeadingZeros(digits) <= 6
    /\ HexValue(digits) <= 1114111
    /\ ~(HexValue(digits) >= 55296 /\ HexValue(digits) <= 57343)

\* The escape \x, \u or \U at index q.i and its digits.
CodeEscape(s, q, n) ==
    IF \E k \in 1..n : ~IS_HEX(CharAt(s, q.i + 1 + k)) THEN QFail(q)
    ELSE IF ~ValidCode(SubSeq(s, q.i + 2, q.i + 1 + n)) THEN QFail(q)
         ELSE QPut(q, n + 2, <<CharOf(HexValue(SubSeq(s, q.i + 2, q.i + 1 + n)))>>)

\* The character behind a run of ordinary ones: a blank, the closing quote
\* or an escaped line break ends the run of non-blank characters.
FlowSpecial(s, single, q) ==
    LET c == CharAt(s, q.i)
        d == CharAt(s, q.i + 1)
    IN  IF IS_BLANKZ(c) THEN Ending(q)
        ELSE IF single /\ c = "'" /\ d = "'" THEN Going(QPut(q, 2, <<"'">>))
        ELSE IF c = (IF single THEN "'" ELSE "\"") THEN Ending(q)
        ELSE IF ~single /\ c = "\\" /\ IS_BREAK(d)
             THEN Ending([q EXCEPT !.i = @ + 1 + BreakWidth(s, q.i + 1), !.col = 0,
                                   !.line = @ + 1, !.leading_blanks = TRUE])
        ELSE IF ~single /\ c = "\\"
             THEN IF d \in DOMAIN EscapeCodes
                  THEN Going(QPut(q, 2, <<CharOf(EscapeCodes[d])>>))
                  ELSE IF d \in DOMAIN CodeLengths
                       THEN Going(CodeEscape(s, q, CodeLengths[d]))
                       ELSE Ending(QFail(q))
        ELSE Going(QRead(s, q, 1))

FlowCharsRound(s, single, q) ==
    LET Ordinary(c) ==
            ~IS_BLANKZ(c) /\ c # (IF single THEN "'" ELSE "\"") /\ (single \/ c # "\\")
    IN  IF q.error THEN Ending(q)
        ELSE FlowSpecial(s, single, QRead(s, q, RunEnd(s, q.i, Ordinary) - q.i))

\* "Consume non-blank characters" of a quoted scalar.
FlowChars(s, single, q) ==
    Repeat(LAMBDA w : FlowCharsRound(s, single, w.at), IsDone, Going(q)).at

\* "Check if we are at the end of the scalar", else the blanks.
AfterFlowChars(s, single, q) ==
    IF q.error THEN Ending(q)
    ELSE IF CharAt(s, q.i) = (IF single THEN "'" ELSE "\"") THEN Ending(QSkip(q, 1))
         ELSE Going(Fold(ScanBlanks(s, 0, q)))

FlowRound(s, single, q) ==
    IF q.error THEN Ending(q)
    ELSE IF (q.col = 0 /\ DocumentIndicatorAt(s, q.i)) \/ IS_Z(CharAt(s, q.i))
         THEN Ending(QFail(q))
         ELSE AfterFlowChars(s, single, FlowChars(s, single, q))

FlowLoop(s, single, q) ==
    Repeat(LAMBDA w : FlowRound(s, single, w.at), IsDone, Going(q)).at

yaml_parser_scan_flow_scalar(s, p, single) ==
    ScalarDone(p, FlowLoop(s, single, QSkip(ScalarStart(p), 1)),
               IF single THEN "single" ELSE "double", FALSE)

(***************************************************************************)
(* Block scalars.  b holds the header and the buffers next to the position.*)
(***************************************************************************)
\* The header: chomping and indentation indicators in either order.
BlockHeader(s, i) ==
    LET c == CharAt(s, i)
        d == CharAt(s, i + 1)
    IN  IF c \in {"+", "-"}
        THEN IF IS_DIGIT(d)
             THEN [error |-> d = "0", chomping |-> c, increment |-> AS_DIGIT(d), width |-> 2]
             ELSE [error |-> FALSE, chomping |-> c, increment |-> 0, width |-> 1]
        ELSE IF IS_DIGIT(c)
             THEN IF d \in {"+", "-"}
                  THEN [error |-> c = "0", chomping |-> d, increment |-> AS_DIGIT(c), width |-> 2]
                  ELSE [error |-> c = "0", chomping |-> "clip", increment |-> AS_DIGIT(c),
                        width |-> 1]
             ELSE [error |-> FALSE, chomping |-> "clip", increment |-> 0, width |-> 0]

\* One round of yaml_parser_scan_block_scalar_breaks before the indentation
\* is known (b.indent = 0) and after: the indentation spaces are eaten, and
\* an empty line starts another round.
BlockBreak(s, b) ==
    LET Space(c) == c = " "
        limit == IF b.indent = 0 THEN Len(s) + 1 ELSE b.i + (b.indent - b.col)
        to == IF b.indent # 0 /\ b.col >= b.indent THEN b.i
              ELSE IF RunEnd(s, b.i, Space) < limit THEN RunEnd(s, b.i, Space) ELSE limit
        col == b.col + (to - b.i)
        max_indent == IF col > b.max_indent THEN col ELSE b.max_indent
    IN  IF (b.indent = 0 \/ col < b.indent) /\ IS_TAB(CharAt(s, to)) THEN Ending(QFail(b))
        ELSE IF IS_BREAK(CharAt(s, to))
             THEN Going([b EXCEPT !.i = to + BreakWidth(s, to), !.col = 0,
                                  !.line = @ + 1, !.max_indent = max_indent,
                                  !.trailing_breaks = @ \o READ_LINE(s, to)])
             ELSE Ending([b EXCEPT !.i = to, !.col = col, !.max_indent = max_indent])

BlockBreaks(s, b) == Repeat(LAMBDA w : BlockBreak(s, w.at), IsDone, Going(b)).at

\* "Determine the indentation level if needed."
BlockIndent(b, parent) ==
    IF b.error \/ b.indent # 0 THEN b
    ELSE [b EXCEPT !.indent =
             IF b.max_indent >= parent + 1 /\ b.max_indent >= 1 THEN b.max_indent
             ELSE IF parent + 1 >= 1 THEN parent + 1 ELSE 1]

ScanBreaks(s, b, parent) == BlockIndent(BlockBreaks(s, [b EXCEPT !.max_indent = 0]), parent)

\* One line of the scalar: the break before it is folded or kept, the line
\* is read, its break is held back.
BlockLine(s, b, literal) ==
    LET trailing_blank == IS_BLANK(CharAt(s, b.i))
        fold == ~literal /\ b.leading_break # <<>> /\ b.leading_break[1] = "\n"
                /\ ~b.leading_blank /\ ~trailing_blank
        before == IF fold THEN (IF b.trailing_breaks = <<>> THEN <<" ">> ELSE <<>>)
                  ELSE b.leading_break
        to == RunEnd(s, b.i, NotBreak)
    IN  [b EXCEPT !.string = @ \o before \o b.trailing_breaks \o SubSeq(s, b.i, to - 1),
                  !.leading_blank = trailing_blank,
                  !.leading_break = IF to > Len(s) THEN <<>> ELSE READ_LINE(s, to),
                  !.trailing_breaks = <<>>,
                  !.i = IF to > Len(s) THEN to ELSE to + BreakWidth(s, to),
                  !.line = IF to > Len(s) THEN @ ELSE @ + 1,
                  !.col = IF to > Len(s) THEN @ + (to - b.i) ELSE 0]

\* "Scan the block scalar content": line after line while the column is the
\* indentation.
BlockLines(s, b, literal, parent) ==
    Repeat(LAMBDA x : ScanBreaks(s, BlockLine(s, x, literal), parent),
           LAMBDA x : x.error \/ x.col # x.indent \/ IS_Z(CharAt(s, x.i)),
           b)

\* "Chomp the tail."
Chomp(b, chomping) ==
    IF b.error THEN b
    ELSE [b EXCEPT !.string =
             @ \o (IF chomping # "-" THEN b.leading_break ELSE <<>>)
               \o (IF chomping = "+" THEN b.trailing_breaks ELSE <<>>)]

\* The rest of the header line: blanks, a comment, the line break.
BlockBody(s, p, literal, h, i) ==
    LET c == IF CharAt(s, i) = "#" THEN RunEnd(s, i, NotBreak) ELSE i
        start == [ScalarStart(p) EXCEPT
                     !.i = IF c > Len(s) THEN c ELSE c + BreakWidth(s, c),
                     !.line = IF c > Len(s) THEN @ ELSE @ + 1,
                     !.col = IF c > Len(s) THEN @ + (c - p.i) ELSE 0]
        b == start @@ [indent |-> IF h.increment = 0 THEN 0
                                   ELSE IF p.indent >= 0 THEN p.indent + h.increment
                                        ELSE h.increment,
                        max_indent |-> 0, leading_blank |-> FALSE]
    IN  IF h.error \/ ~IS_BREAKZ(CharAt(s, c)) THEN Fail(p)
        ELSE ScalarDone(p, Chomp(BlockLines(s, ScanBreaks(s, b, p.indent), literal, p.indent),
                                 h.chomping),
                        IF literal THEN "literal" ELSE "folded", TRUE)

BlockAfterHeader(s, p, literal, h) ==
    BlockBody(s, p, literal, h, RunEnd(s, p.i + 1 + h.width, IS_BLANK))

yaml_parser_scan_block_scalar(s, p, literal) ==
    BlockAfterHeader(s, p, literal, BlockHeader(s, p.i + 1))

(***************************************************************************)
(* Anchors, aliases, tags and directives.  A piece of text is scanned to a *)
(* record of its text and the index behind it.                             *)
(***************************************************************************)
Piece(text, to) == [error |-> FALSE, text |-> text, to |-> to]
NoPiece == [error |-> TRUE, text |-> <<>>, to |-> 0]

\* The characters that may follow an anchor or an alias.
AfterAnchor == {"?", ":", ",", "]", "}", "%", "@", CharOf(96)}

AnchorDone(s, p, type, to) ==
    IF to = p.i + 1 \/ ~(IS_BLANKZ(CharAt(s, to)) \/ CharAt(s, to) \in AfterAnchor) THEN Fail(p)
    ELSE ENQUEUE(SKIP(p, to - p.i), Token(type, SubSeq(s, p.i + 1, to - 1), <<>>, "none"))

yaml_parser_scan_anchor(s, p, type) ==
    IF p.error THEN p ELSE AnchorDone(s, p, type, RunEnd(s, p.i + 1, IS_ALPHA))

\* yaml_parser_scan_tag_handle: "!", "!!" or "!word!"; in a tag, a "!word"
\* that no "!" closes is the start of the suffix.
TagHandle(s, i, directive) ==
    LET to == RunEnd(s, i + 1, IS_ALPHA)
    IN  IF CharAt(s, i) # "!" THEN NoPiece
        ELSE IF CharAt(s, to) = "!" THEN Piece(SubSeq(s, i, to), to + 1)
             ELSE IF directive /\ to # i + 1 THEN NoPiece
                  ELSE Piece(SubSeq(s, i, to - 1), to)

UriChars ==
    Digits \cup Letters \cup
    {"_", "-", ";", "/", "?", ":", "@", "&", "=", "+", "$", ".", "!", "~", "*", "'", "(", ")"}

\* The number of octets the leading octet of a UTF-8 sequence announces, 0
\* for an octet that leads none.
OctetWidth(octet) ==
    IF octet < 128 THEN 1
    ELSE IF octet >= 192 /\ octet < 224 THEN 2
    ELSE IF octet >= 224 /\ octet < 240 THEN 3
    ELSE IF octet >= 240 /\ octet < 248 THEN 4
    ELSE 0

OctetAt(s, i) ==
    IF CharAt(s, i) = "%" /\ IS_HEX(CharAt(s, i + 1)) /\ IS_HEX(CharAt(s, i + 2))
    THEN 16 * AS_HEX(s[i + 1]) + AS_HEX(s[i + 2])
    ELSE -1

\* The bits of the leading octet that belong to the code point.
LeadBits(octet, width) ==
    CASE width = 1 -> octet [] width = 2 -> octet % 32 [] width = 3 -> octet % 16
      [] OTHER -> octet % 8

RECURSIVE TrailingOctets(_, _, _, _)
\* The code point after `n` more trailing octets, -1 for a wrong octet.
TrailingOctets(s, i, n, code) ==
    IF n = 0 THEN code
    ELSE IF OctetAt(s, i) < 128 \/ OctetAt(s, i) >= 192 THEN -1
         ELSE TrailingOctets(s, i + 3, n - 1, 64 * code + (OctetAt(s, i) % 64))

\* The octets of an escape that are no UTF-8 (an encoding longer than needed,
\* a surrogate, a value above 0x10FFFF) stay in the tag as they are: one
\* character of its own stands for them.
NotUtf8 == "NotUtf8"

IsUtf8(code, width) ==
    /\ width = 2 => code >= 128
    /\ width = 3 => code >= 2048 /\ ~(code >= 55296 /\ code <= 57343)
    /\ width = 4 => code >= 65536 /\ code <= 1114111

\* yaml_parser_scan_uri_escapes: the character a sequence of %XX octets
\* encodes.
UriEscape(s, i) ==
    LET width == IF OctetAt(s, i) < 0 THEN 0 ELSE OctetWidth(OctetAt(s, i))
        code == IF width = 0 THEN -1
                ELSE TrailingOctets(s, i + 3, width - 1, LeadBits(OctetAt(s, i), width))
    IN  IF code < 0 THEN NoPiece
        ELSE Piece(<<IF IsUtf8(code, width) THEN CharOf(code) ELSE NotUtf8>>, i + 3 * width)

RECURSIVE UriText(_, _, _, _)
\* The characters of a tag URI from index i on; flow indicators belong to
\* it inside a verbatim tag and in a directive only.
UriText(s, i, uri_char, text) ==
    LET Plain(c) == c \in UriChars \/ (uri_char /\ c \in {",", "[", "]"})
        After(to, escape) ==
            IF CharAt(s, to) # "%" THEN Piece(text \o SubSeq(s, i, to - 1), to)
            ELSE IF escape.error THEN NoPiece
                 ELSE UriText(s, escape.to, uri_char,
                              text \o SubSeq(s, i, to - 1) \o escape.text)
        Run(to) == After(to, IF CharAt(s, to) = "%" THEN UriEscape(s, to) ELSE NoPiece)
    IN  Run(RunEnd(s, i, Plain))

\* yaml_parser_scan_tag_uri: the head is the "!word" read as a handle.
TagUriDone(head, uri) ==
    IF uri.error \/ (Len(head) = 0 /\ uri.text = <<>>) THEN NoPiece
    ELSE Piece((IF Len(head) > 1 THEN Tail(head) ELSE <<>>) \o uri.text, uri.to)

TagUri(s, i, uri_char, head) == TagUriDone(head, UriText(s, i, uri_char, <<>>))

IsNamedHandle(handle) == Len(handle.text) > 1 /\ handle.text[Len(handle.text)] = "!"

\* A tag: [handle, suffix, to]; the tag "!" has the suffix "!" and no handle.
TagOf(handle, suffix, named) ==
    IF handle.error \/ suffix.error THEN [error |-> TRUE, handle |-> <<>>, suffix |-> <<>>, to |-> 0]
    ELSE IF named THEN [error |-> FALSE, handle |-> handle.text, suffix |-> suffix.text,
                        to |-> suffix.to]
    ELSE IF suffix.text = <<>> THEN [error |-> FALSE, handle |-> <<>>, suffix |-> <<"!">>,
                                     to |-> suffix.to]
    ELSE [error |-> FALSE, handle |-> <<"!">>, suffix |-> suffix.text, to |-> suffix.to]

ShortTag(s, handle) ==
    IF handle.error THEN TagOf(handle, NoPiece, FALSE)
    ELSE IF IsNamedHandle(handle)
         THEN TagOf(handle, TagUri(s, handle.to, FALSE, <<>>), TRUE)
         ELSE TagOf(handle, TagUri(s, handle.to, FALSE, handle.text), FALSE)

VerbatimTag(s, uri) ==
    IF uri.error \/ CharAt(s, uri.to) # ">"
    THEN [error |-> TRUE, handle |-> <<>>, suffix |-> <<>>, to |-> 0]
    ELSE [error |-> FALSE, handle |-> <<>>, suffix |-> uri.text, to |-> uri.to + 1]

TagDone(s, p, tag) ==
    IF tag.error THEN Fail(p)
    ELSE IF ~IS_BLANKZ(CharAt(s, tag.to)) /\ ~(p.flow_level > 0 /\ CharAt(s, tag.to) = ",")
         THEN Fail(p)
         ELSE ENQUEUE(SKIP(p, tag.to - p.i), Token("TAG", tag.suffix, tag.handle, "none"))

yaml_parser_scan_tag(s, p) ==
    IF p.error THEN p
    ELSE IF CharAt(s, p.i + 1) = "<"
         THEN TagDone(s, p, VerbatimTag(s, TagUri(s, p.i + 2, TRUE, <<>>)))
         ELSE TagDone(s, p, ShortTag(s, TagHandle(s, p.i, FALSE)))

RECURSIVE DecimalValue(_)
DecimalValue(digits) ==
    IF digits = <<>> THEN 0
    ELSE 10 * DecimalValue(SubSeq(digits, 1, Len(digits) - 1)) + AS_DIGIT(digits[Len(digits)])

\* yaml_parser_scan_version_directive_number: one to nine digits.
VersionNumber(s, i) ==
    LET to == RunEnd(s, i, IS_DIGIT)
    IN  IF to = i \/ to - i > 9 THEN NoPiece ELSE Piece(<<DecimalValue(SubSeq(s, i, to - 1))>>, to)

VersionMinor(s, major) ==
    IF major.error \/ CharAt(s, major.to) # "." THEN NoPiece
    ELSE VersionNumber(s, major.to + 1)

VersionValue(major, minor) ==
    IF minor.error THEN [error |-> TRUE, token |-> Mark("none"), to |-> 0]
    ELSE [error |-> FALSE, to |-> minor.to,
          token |-> Token("VERSION-DIRECTIVE", major.text \o minor.text, <<>>, "none")]

VersionDirective(s, major) == VersionValue(major, VersionMinor(s, major))

TagDirectivePrefix(s, handle) ==
    IF handle.error \/ ~IS_BLANK(CharAt(s, handle.to)) THEN NoPiece
    ELSE TagUri(s, RunEnd(s, handle.to, IS_BLANK), TRUE, <<>>)

TagDirectiveValue(s, handle, prefix) ==
    IF prefix.error \/ ~IS_BLANKZ(CharAt(s, prefix.to))
    THEN [error |-> TRUE, token |-> Mark("none"), to |-> 0]
    ELSE [error |-> FALSE, to |-> prefix.to,
          token |-> Token("TAG-DIRECTIVE", handle.text, prefix.text, "none")]

TagDirective(s, handle) == TagDirectiveValue(s, handle, TagDirectivePrefix(s, handle))

\* "Eat the rest of the line including any comments."
DirectiveEnd(s, p, to) ==
    LET c == IF CharAt(s, to) = "#" THEN RunEnd(s, to, NotBreak) ELSE to
    IN  IF ~IS_BREAKZ(CharAt(s, c)) THEN Fail(p)
        ELSE IF c > Len(s) THEN SKIP(p, c - p.i)
             ELSE SKIP_LINE(s, SKIP(p, c - p.i))

DirectiveDone(s, p, directive) ==
    IF directive.error THEN Fail(p)
    ELSE ENQUEUE(DirectiveEnd(s, p, RunEnd(s, directive.to, IS_BLANK)), directive.token)

YamlName == <<"Y", "A", "M", "L">>
TagName == <<"T", "A", "G">>

DirectiveNamed(s, p, to) ==
    LET name == SubSeq(s, p.i + 1, to - 1)
    IN  IF name = <<>> \/ ~IS_BLANKZ(CharAt(s, to)) THEN Fail(p)
        ELSE IF name = YamlName
             THEN DirectiveDone(s, p, VersionDirective(s, VersionNumber(s, RunEnd(s, to, IS_BLANK))))
        ELSE IF name = TagName
             THEN DirectiveDone(s, p, TagDirective(s, TagHandle(s, RunEnd(s, to, IS_BLANK), TRUE)))
        ELSE Fail(p)

yaml_parser_scan_directive(s, p) ==
    IF p.error THEN p ELSE DirectiveNamed(s, p, RunEnd(s, p.i + 1, IS_ALPHA))

(***************************************************************************)
(* The fetchers: one token, or a few, at the scanner's position.           *)
(***************************************************************************)
Reset(p) == Allow(yaml_parser_remove_simple_key(yaml_parser_unroll_indent(p, -1)), FALSE)

yaml_parser_fetch_stream_end(p) ==
    LET q == Reset(p)
    IN  IF q.error THEN q ELSE [ENQUEUE(q, Mark("STREAM-END")) EXCEPT !.done = TRUE]

yaml_parser_fetch_directive(s, p) == yaml_parser_scan_directive(s, Reset(p))

AddMark(p, n, type) == IF p.error THEN p ELSE ENQUEUE(SKIP(p, n), Mark(type))

yaml_parser_fetch_document_indicator(p, type) == AddMark(Reset(p), 3, type)

yaml_parser_fetch_flow_collection_start(p, type) ==
    AddMark(Allow(yaml_parser_increase_flow_level(yaml_parser_save_simple_key(p)), TRUE), 1, type)

yaml_parser_fetch_flow_collection_end(p, type) ==
    AddMark(Allow(yaml_parser_decrease_flow_level(yaml_parser_remove_simple_key(p)), FALSE), 1, type)

yaml_parser_fetch_flow_entry(p) ==
    AddMark(Allow(yaml_parser_remove_simple_key(p), TRUE), 1, "FLOW-ENTRY")

yaml_parser_fetch_block_entry(p) ==
    IF p.flow_level = 0 /\ ~p.simple_key_allowed THEN Fail(p)
    ELSE AddMark(Allow(yaml_parser_remove_simple_key(
                           yaml_parser_roll_indent(p, p.col, -1, "BLOCK-SEQUENCE-START")),
                       TRUE), 1, "BLOCK-ENTRY")

yaml_parser_fetch_key(p) ==
    IF p.flow_level = 0 /\ ~p.simple_key_allowed THEN Fail(p)
    ELSE AddMark(Allow(yaml_parser_remove_simple_key(
                           yaml_parser_roll_indent(p, p.col, -1, "BLOCK-MAPPING-START")),
                       p.flow_level = 0), 1, "KEY")

\* The KEY token is inserted where the simple key began, and the start of a
\* block mapping before it.
SimpleKeyValue(p, key) ==
    Allow(SetTopKey(
              yaml_parser_roll_indent(
                  [p EXCEPT !.tokens = InsertAt(@, key.token_number, Mark("KEY"))],
                  key.col, key.token_number, "BLOCK-MAPPING-START"),
              [key EXCEPT !.possible = FALSE]),
          FALSE)

yaml_parser_fetch_value(p) ==
    IF TopKey(p).possible THEN AddMark(SimpleKeyValue(p, TopKey(p)), 1, "VALUE")
    ELSE IF p.flow_level = 0 /\ ~p.simple_key_allowed THEN Fail(p)
         ELSE AddMark(Allow(yaml_parser_roll_indent(p, p.col, -1, "BLOCK-MAPPING-START"),
                            p.flow_level = 0), 1, "VALUE")

yaml_parser_fetch_anchor(s, p, type) ==
    yaml_parser_scan_anchor(s, Allow(yaml_parser_save_simple_key(p), FALSE), type)

yaml_parser_fetch_tag(s, p) ==
    yaml_parser_scan_tag(s, Allow(yaml_parser_save_simple_key(p), FALSE))

BlockScalarAt(s, p, literal) ==
    IF p.error THEN p ELSE yaml_parser_scan_block_scalar(s, p, literal)

yaml_parser_fetch_block_scalar(s, p, literal) ==
    BlockScalarAt(s, Allow(yaml_parser_remove_simple_key(p), TRUE), literal)

FlowScalarAt(s, p, single) ==
    IF p.error THEN p ELSE yaml_parser_scan_flow_scalar(s, p, single)

yaml_parser_fetch_flow_scalar(s, p, single) ==
    FlowScalarAt(s, Allow(yaml_parser_save_simple_key(p), FALSE), single)

PlainScalarAt(s, p) == IF p.error THEN p ELSE yaml_parser_scan_plain_scalar(s, p)

yaml_parser_fetch_plain_scalar(s, p) ==
    PlainScalarAt(s, Allow(yaml_parser_save_simple_key(p), FALSE))

\* The characters no plain scalar starts with.
Indicators ==
    {"-", "?", ":", ",", "[", "]", "{", "}", "#", "&", "*", "!", "|", ">", "'", "\"",
     "%", "@", CharOf(96)}

StartsPlain(s, p) ==
    LET c == CharAt(s, p.i)
        d == CharAt(s, p.i + 1)
    IN  \/ ~(IS_BLANKZ(c) \/ c \in Indicators)
        \/ c = "-" /\ ~IS_BLANK(d)
        \/ p.flow_level = 0 /\ c \in {"?", ":"} /\ ~IS_BLANKZ(d)

\* The token that starts at the scanner's position.
TokenAt(s, p) ==
    LET c == CharAt(s, p.i)
        d == CharAt(s, p.i + 1)
    IN  IF IS_Z(c) THEN yaml_parser_fetch_stream_end(p)
        ELSE IF p.col = 0 /\ c = "%" THEN yaml_parser_fetch_directive(s, p)
        ELSE IF p.col = 0 /\ DocumentIndicatorAt(s, p.i)
             THEN yaml_parser_fetch_document_indicator(
                      p, IF c = "-" THEN "DOCUMENT-START" ELSE "DOCUMENT-END")
        ELSE IF c = "[" THEN yaml_parser_fetch_flow_collection_start(p, "FLOW-SEQUENCE-START")
        ELSE IF c = "{" THEN yaml_parser_fetch_flow_collection_start(p, "FLOW-MAPPING-START")
        ELSE IF c = "]" THEN yaml_parser_fetch_flow_collection_end(p, "FLOW-SEQUENCE-END")
        ELSE IF c = "}" THEN yaml_parser_fetch_flow_collection_end(p, "FLOW-MAPPING-END")
        ELSE IF c = "," THEN yaml_parser_fetch_flow_entry(p)
        ELSE IF c = "-" /\ IS_BLANKZ(d) THEN yaml_parser_fetch_block_entry(p)
        ELSE IF c = "?" /\ (p.flow_level > 0 \/ IS_BLANKZ(d)) THEN yaml_parser_fetch_key(p)
        ELSE IF c = ":" /\ (p.flow_level > 0 \/ IS_BLANKZ(d)) THEN yaml_parser_fetch_value(p)
        ELSE IF c = "*" THEN yaml_parser_fetch_anchor(s, p, "ALIAS")
        ELSE IF c = "&" THEN yaml_parser_fetch_anchor(s, p, "ANCHOR")
        ELSE IF c = "!" THEN yaml_parser_fetch_tag(s, p)
        ELSE IF c = "|" /\ p.flow_level = 0 THEN yaml_parser_fetch_block_scalar(s, p, TRUE)
        ELSE IF c = ">" /\ p.flow_level = 0 THEN yaml_parser_fetch_block_scalar(s, p, FALSE)
        ELSE IF c = "'" THEN yaml_parser_fetch_flow_scalar(s, p, TRUE)
        ELSE IF c = "\"" THEN yaml_parser_fetch_flow_scalar(s, p, FALSE)
        ELSE IF StartsPlain(s, p) THEN yaml_parser_fetch_plain_scalar(s, p)
        ELSE Fail(p)

UnrollToColumn(p) == IF p.error THEN p ELSE yaml_parser_unroll_indent(p, p.col)

yaml_parser_fetch_next_token(s, p) ==
    TokenAt(s, UnrollToColumn(
                   yaml_parser_stale_simple_keys(yaml_parser_scan_to_next_token(s, p))))

\* The scanner run to the end of the stream or to its first error.
yaml_parser_fetch_more_tokens(s, p) ==
    Repeat(LAMBDA x : yaml_parser_fetch_next_token(s, x), LAMBDA x : x.error \/ x.done, p)

\* The tokens of a text; a character that is not allowed fails the reader.
Tokens(s) ==
    IF \E k \in 1..Len(s) : s[k] \in NotAllowed THEN Fail(ScannerStart)
    ELSE yaml_parser_fetch_more_tokens(s, ScannerStart)

(***************************************************************************)
(* The parser (libyaml parser.c): tokens to events.  ps holds the index of *)
(* the next token, the state, the stack of states to return to, the tag    *)
(* directives of the document and the events produced so far.              *)
(***************************************************************************)
Event(type, anchor, tag, value, plain) ==
    [type |-> type, anchor |-> anchor, tag |-> tag, value |-> value, plain |-> plain]

Signal(type) == Event(type, <<>>, <<>>, <<>>, FALSE)
EmptyScalar == Event("SCALAR", <<>>, <<>>, <<>>, TRUE)

ParserStart(tokens) ==
    [tokens |-> tokens, k |-> 2, state |-> "IMPLICIT_DOCUMENT_START", states |-> <<>>,
     tag_directives |-> <<>>, events |-> <<>>, error |-> FALSE, done |-> FALSE]

PEEK_TOKEN(ps) == ps.tokens[ps.k].type
SKIP_TOKEN(ps) == [ps EXCEPT !.k = @ + 1]
PFail(ps) == [ps EXCEPT !.error = TRUE]
Emit(ps, event) == [ps EXCEPT !.events = Append(@, event)]
State(ps, state) == [ps EXCEPT !.state = state]
PUSH(ps, state) == [ps EXCEPT !.states = Append(@, state)]
POP(ps) == [ps EXCEPT !.state = ps.states[Len(ps.states)],
                      !.states = SubSeq(@, 1, Len(@) - 1)]

yaml_parser_process_empty_scalar(ps) == Emit(ps, EmptyScalar)

YamlPrefix ==
    <<"t", "a", "g", ":", "y", "a", "m", "l", ".", "o", "r", "g", ",", "2", "0", "0", "2", ":">>

DefaultTagDirectives ==
    <<[handle |-> <<"!">>, prefix |-> <<"!">>], [handle |-> <<"!", "!">>, prefix |-> YamlPrefix]>>

HasHandle(directives, handle) == \E d \in 1..Len(directives) : directives[d].handle = handle

RECURSIVE Directives(_, _, _)
\* yaml_parser_process_directives over the directive tokens from index k
\* on: [error, k, tag_directives].
Directives(ps, k, versioned) ==
    LET t == ps.tokens[k]
    IN  IF t.type = "VERSION-DIRECTIVE"
        THEN IF versioned \/ t.value[1] # 1 \/ t.value[2] \notin {1, 2} THEN PFail(ps)
             ELSE Directives(ps, k + 1, TRUE)
        ELSE IF t.type = "TAG-DIRECTIVE"
        THEN IF HasHandle(ps.tag_directives, t.value) THEN PFail(ps)
             ELSE Directives([ps EXCEPT !.tag_directives =
                                 Append(@, [handle |-> t.value, prefix |-> t.aux])],
                             k + 1, versioned)
        ELSE [ps EXCEPT !.k = k,
                        !.tag_directives =
                            @ \o SelectSeq(DefaultTagDirectives,
                                           LAMBDA d : ~HasHandle(ps.tag_directives, d.handle))]

yaml_parser_process_directives(ps) == Directives(ps, ps.k, FALSE)

RECURSIVE SkipDocumentEnds(_)
SkipDocumentEnds(ps) ==
    IF PEEK_TOKEN(ps) = "DOCUMENT-END" THEN SkipDocumentEnds(SKIP_TOKEN(ps)) ELSE ps

DirectiveTokens == {"VERSION-DIRECTIVE", "TAG-DIRECTIVE"}

ExplicitDocument(ps) ==
    IF ps.error \/ PEEK_TOKEN(ps) # "DOCUMENT-START" THEN PFail(ps)
    ELSE Emit(SKIP_TOKEN(State(PUSH(ps, "DOCUMENT_END"), "DOCUMENT_CONTENT")),
              Signal("DOCUMENT-START"))

DocumentStart(ps, implicit) ==
    IF implicit /\ PEEK_TOKEN(ps) \notin DirectiveTokens \cup {"DOCUMENT-START", "STREAM-END"}
    THEN Emit(State(PUSH(yaml_parser_process_directives(ps), "DOCUMENT_END"), "BLOCK_NODE"),
              Signal("DOCUMENT-START"))
    ELSE IF PEEK_TOKEN(ps) # "STREAM-END"
         THEN ExplicitDocument(yaml_parser_process_directives(ps))
         ELSE [Emit(ps, Signal("STREAM-END")) EXCEPT !.done = TRUE, !.state = "END"]

yaml_parser_parse_document_start(ps, implicit) ==
    DocumentStart(IF implicit THEN ps ELSE SkipDocumentEnds(ps), implicit)

yaml_parser_parse_document_end(ps) ==
    Emit([ps EXCEPT !.k = IF PEEK_TOKEN(ps) = "DOCUMENT-END" THEN @ + 1 ELSE @,
                    !.tag_directives = <<>>,
                    !.state = "DOCUMENT_START"],
         Signal("DOCUMENT-END"))

\* The properties of a node: an anchor and a tag in either order.
Properties(ps) ==
    LET t == ps.tokens[ps.k]
        u == ps.tokens[ps.k + 1]
    IN  IF t.type = "ANCHOR"
        THEN IF u.type = "TAG"
             THEN [n |-> 2, anchor |-> t.value, tagged |-> TRUE, handle |-> u.aux,
                   suffix |-> u.value]
             ELSE [n |-> 1, anchor |-> t.value, tagged |-> FALSE, handle |-> <<>>,
                   suffix |-> <<>>]
        ELSE IF t.type = "TAG"
        THEN [n |-> IF u.type = "ANCHOR" THEN 2 ELSE 1,
              anchor |-> IF u.type = "ANCHOR" THEN u.value ELSE <<>>,
              tagged |-> TRUE, handle |-> t.aux, suffix |-> t.value]
        ELSE [n |-> 0, anchor |-> <<>>, tagged |-> FALSE, handle |-> <<>>, suffix |-> <<>>]

\* The tag of a node: the suffix behind the prefix of its handle.
TagPrefix(directives, handle) ==
    directives[CHOOSE d \in 1..Len(directives) : directives[d].handle = handle].prefix

\* The content of a node behind its properties.
NodeContent(ps, block, indentless_sequence, anchor, tag) ==
    LET t == ps.tokens[ps.k]
    IN  IF indentless_sequence /\ t.type = "BLOCK-ENTRY"
        THEN Emit(State(ps, "INDENTLESS_SEQUENCE_ENTRY"),
                  Event("SEQUENCE-START", anchor, tag, <<>>, FALSE))
        ELSE IF t.type = "SCALAR"
        THEN Emit(SKIP_TOKEN(POP(ps)), Event("SCALAR", anchor, tag, t.value, t.style = "plain"))
        ELSE IF t.type = "FLOW-SEQUENCE-START"
        THEN Emit(State(ps, "FLOW_SEQUENCE_FIRST_ENTRY"),
                  Event("SEQUENCE-START", anchor, tag, <<>>, FALSE))
        ELSE IF t.type = "FLOW-MAPPING-START"
        THEN Emit(State(ps, "FLOW_MAPPING_FIRST_KEY"),
                  Event("MAPPING-START", anchor, tag, <<>>, FALSE))
        ELSE IF block /\ t.type = "BLOCK-SEQUENCE-START"
        THEN Emit(State(ps, "BLOCK_SEQUENCE_FIRST_ENTRY"),
                  Event("SEQUENCE-START", anchor, tag, <<>>, FALSE))
        ELSE IF block /\ t.type = "BLOCK-MAPPING-START"
        THEN Emit(State(ps, "BLOCK_MAPPING_FIRST_KEY"),
                  Event("MAPPING-START", anchor, tag, <<>>, FALSE))
        ELSE IF anchor # <<>> \/ tag # <<>>
        THEN Emit(POP(ps), Event("SCALAR", anchor, tag, <<>>, TRUE))
        ELSE PFail(ps)

NodeWith(ps, block, indentless_sequence, props) ==
    IF props.tagged /\ props.handle # <<>> /\ ~HasHandle(ps.tag_directives, props.handle)
    THEN PFail(ps)
    ELSE NodeContent([ps EXCEPT !.k = @ + props.n], block, indentless_sequence, props.anchor,
                     IF ~props.tagged THEN <<>>
                     ELSE IF props.handle = <<>> THEN props.suffix
                     ELSE TagPrefix(ps.tag_directives, props.handle) \o props.suffix)

yaml_parser_parse_node(ps, block, indentless_sequence) ==
    IF PEEK_TOKEN(ps) = "ALIAS"
    THEN Emit(SKIP_TOKEN(POP(ps)), Event("ALIAS", ps.tokens[ps.k].value, <<>>, <<>>, FALSE))
    ELSE NodeWith(ps, block, indentless_sequence, Properties(ps))

\* A node, or an empty scalar where one of the tokens `none` follows.
NodeOrEmpty(ps, none, back, block, indentless_sequence) ==
    IF PEEK_TOKEN(ps) \in none THEN yaml_parser_process_empty_scalar(State(ps, back))
    ELSE yaml_parser_parse_node(PUSH(ps, back), block, indentless_sequence)

yaml_parser_parse_document_content(ps) ==
    IF PEEK_TOKEN(ps) \in DirectiveTokens \cup {"DOCUMENT-START", "DOCUMENT-END", "STREAM-END"}
    THEN yaml_parser_process_empty_scalar(POP(ps))
    ELSE yaml_parser_parse_node(ps, TRUE, FALSE)

BlockSequenceEntry(ps) ==
    IF PEEK_TOKEN(ps) = "BLOCK-ENTRY"
    THEN NodeOrEmpty(SKIP_TOKEN(ps), {"BLOCK-ENTRY", "BLOCK-END"}, "BLOCK_SEQUENCE_ENTRY",
                     TRUE, FALSE)
    ELSE IF PEEK_TOKEN(ps) = "BLOCK-END"
         THEN Emit(SKIP_TOKEN(POP(ps)), Signal("SEQUENCE-END"))
         ELSE PFail(ps)

yaml_parser_parse_block_sequence_entry(ps, first) ==
    BlockSequenceEntry(IF first THEN SKIP_TOKEN(ps) ELSE ps)

yaml_parser_parse_indentless_sequence_entry(ps) ==
    IF PEEK_TOKEN(ps) = "BLOCK-ENTRY"
    THEN NodeOrEmpty(SKIP_TOKEN(ps), {"BLOCK-ENTRY", "KEY", "VALUE", "BLOCK-END"},
                     "INDENTLESS_SEQUENCE_ENTRY", TRUE, FALSE)
    ELSE Emit(POP(ps), Signal("SEQUENCE-END"))

BlockMappingKey(ps) ==
    IF PEEK_TOKEN(ps) = "KEY"
    THEN NodeOrEmpty(SKIP_TOKEN(ps), {"KEY", "VALUE", "BLOCK-END"}, "BLOCK_MAPPING_VALUE",
                     TRUE, TRUE)
    ELSE IF PEEK_TOKEN(ps) = "BLOCK-END"
         THEN Emit(SKIP_TOKEN(POP(ps)), Signal("MAPPING-END"))
         ELSE PFail(ps)

yaml_parser_parse_block_mapping_key(ps, first) ==
    BlockMappingKey(IF first THEN SKIP_TOKEN(ps) ELSE ps)

yaml_parser_parse_block_mapping_value(ps) ==
    IF PEEK_TOKEN(ps) = "VALUE"
    THEN NodeOrEmpty(SKIP_TOKEN(ps), {"KEY", "VALUE", "BLOCK-END"}, "BLOCK_MAPPING_KEY",
                     TRUE, TRUE)
    ELSE yaml_parser_process_empty_scalar(State(ps, "BLOCK_MAPPING_KEY"))

FlowSequenceItem(ps) ==
    IF ps.error THEN ps
    ELSE IF PEEK_TOKEN(ps) = "KEY"
         THEN Emit(SKIP_TOKEN(State(ps, "FLOW_SEQUENCE_ENTRY_MAPPING_KEY")),
                   Event("MAPPING-START", <<>>, <<>>, <<>>, FALSE))
         ELSE IF PEEK_TOKEN(ps) # "FLOW-SEQUENCE-END"
              THEN yaml_parser_parse_node(PUSH(ps, "FLOW_SEQUENCE_ENTRY"), FALSE, FALSE)
              ELSE Emit(SKIP_TOKEN(POP(ps)), Signal("SEQUENCE-END"))

\* The "," between the entries of a flow collection.
FlowEntry(ps, first) ==
    IF first THEN ps
    ELSE IF PEEK_TOKEN(ps) = "FLOW-ENTRY" THEN SKIP_TOKEN(ps) ELSE PFail(ps)

FlowSequenceEntry(ps, first) ==
    IF PEEK_TOKEN(ps) # "FLOW-SEQUENCE-END" THEN FlowSequenceItem(FlowEntry(ps, first))
    ELSE Emit(SKIP_TOKEN(POP(ps)), Signal("SEQUENCE-END"))

yaml_parser_parse_flow_sequence_entry(ps, first) ==
    FlowSequenceEntry(IF first THEN SKIP_TOKEN(ps) ELSE ps, first)

\* Where the key is empty the token that follows it is skipped as well.
yaml_parser_parse_flow_sequence_entry_mapping_key(ps) ==
    IF PEEK_TOKEN(ps) \in {"VALUE", "FLOW-ENTRY", "FLOW-SEQUENCE-END"}
    THEN yaml_parser_process_empty_scalar(
             State(SKIP_TOKEN(ps), "FLOW_SEQUENCE_ENTRY_MAPPING_VALUE"))
    ELSE yaml_parser_parse_node(PUSH(ps, "FLOW_SEQUENCE_ENTRY_MAPPING_VALUE"), FALSE, FALSE)

yaml_parser_parse_flow_sequence_entry_mapping_value(ps) ==
    IF PEEK_TOKEN(ps) = "VALUE"
    THEN NodeOrEmpty(SKIP_TOKEN(ps), {"FLOW-ENTRY", "FLOW-SEQUENCE-END"},
                     "FLOW_SEQUENCE_ENTRY_MAPPING_END", FALSE, FALSE)
    ELSE yaml_parser_process_empty_scalar(State(ps, "FLOW_SEQUENCE_ENTRY_MAPPING_END"))

yaml_parser_parse_flow_sequence_entry_mapping_end(ps) ==
    Emit(State(ps, "FLOW_SEQUENCE_ENTRY"), Signal("MAPPING-END"))

FlowMappingItem(ps) ==
    IF ps.error THEN ps
    ELSE IF PEEK_TOKEN(ps) = "KEY"
         THEN NodeOrEmpty(SKIP_TOKEN(ps), {"VALUE", "FLOW-ENTRY", "FLOW-MAPPING-END"},
                          "FLOW_MAPPING_VALUE", FALSE, FALSE)
         ELSE IF PEEK_TOKEN(ps) # "FLOW-MAPPING-END"
              THEN yaml_parser_parse_node(PUSH(ps, "FLOW_MAPPING_EMPTY_VALUE"), FALSE, FALSE)
              ELSE Emit(SKIP_TOKEN(POP(ps)), Signal("MAPPING-END"))

FlowMappingKey(ps, first) ==
    IF PEEK_TOKEN(ps) # "FLOW-MAPPING-END" THEN FlowMappingItem(FlowEntry(ps, first))
    ELSE Emit(SKIP_TOKEN(POP(ps)), Signal("MAPPING-END"))

yaml_parser_parse_flow_mapping_key(ps, first) ==
    FlowMappingKey(IF first THEN SKIP_TOKEN(ps) ELSE ps, first)

yaml_parser_parse_flow_mapping_value(ps, empty) ==
    IF empty \/ PEEK_TOKEN(ps) # "VALUE"
    THEN yaml_parser_process_empty_scalar(State(ps, "FLOW_MAPPING_KEY"))
    ELSE NodeOrEmpty(SKIP_TOKEN(ps), {"FLOW-ENTRY", "FLOW-MAPPING-END"}, "FLOW_MAPPING_KEY",
                     FALSE, FALSE)

yaml_parser_state_machine(ps) ==
    CASE ps.state = "IMPLICIT_DOCUMENT_START" -> yaml_parser_parse_document_start(ps, TRUE)
      [] ps.state = "DOCUMENT_START" -> yaml_parser_parse_document_start(ps, FALSE)
      [] ps.state = "DOCUMENT_CONTENT" -> yaml_parser_parse_document_content(ps)
      [] ps.state = "DOCUMENT_END" -> yaml_parser_parse_document_end(ps)
      [] ps.state = "BLOCK_NODE" -> yaml_parser_parse_node(ps, TRUE, FALSE)
      [] ps.state = "BLOCK_SEQUENCE_FIRST_ENTRY" ->
             yaml_parser_parse_block_sequence_entry(ps, TRUE)
      [] ps.state = "BLOCK_SEQUENCE_ENTRY" -> yaml_parser_parse_block_sequence_entry(ps, FALSE)
      [] ps.state = "INDENTLESS_SEQUENCE_ENTRY" ->
             yaml_parser_parse_indentless_sequence_entry(ps)
      [] ps.state = "BLOCK_MAPPING_FIRST_KEY" -> yaml_parser_parse_block_mapping_key(ps, TRUE)
      [] ps.state = "BLOCK_MAPPING_KEY" -> yaml_parser_parse_block_mapping_key(ps, FALSE)
      [] ps.state = "BLOCK_MAPPING_VALUE" -> yaml_parser_parse_block_mapping_value(ps)
      [] ps.state = "FLOW_SEQUENCE_FIRST_ENTRY" ->
             yaml_parser_parse_flow_sequence_entry(ps, TRUE)
      [] ps.state = "FLOW_SEQUENCE_ENTRY" -> yaml_parser_parse_flow_sequence_entry(ps, FALSE)
      [] ps.state = "FLOW_SEQUENCE_ENTRY_MAPPING_KEY" ->
             yaml_parser_parse_flow_sequence_entry_mapping_key(ps)
      [] ps.state = "FLOW_SEQUENCE_ENTRY_MAPPING_VALUE" ->
             yaml_parser_parse_flow_sequence_entry_mapping_value(ps)
      [] ps.state = "FLOW_SEQUENCE_ENTRY_MAPPING_END" ->
             yaml_parser_parse_flow_sequence_entry_mapping_end(ps)
      [] ps.state = "FLOW_MAPPING_FIRST_KEY" -> yaml_parser_parse_flow_mapping_key(ps, TRUE)
      [] ps.state = "FLOW_MAPPING_KEY" -> yaml_parser_parse_flow_mapping_key(ps, FALSE)
      [] ps.state = "FLOW_MAPPING_VALUE" -> yaml_parser_parse_flow_mapping_value(ps, FALSE)
      [] ps.state = "FLOW_MAPPING_EMPTY_VALUE" -> yaml_parser_parse_flow_mapping_value(ps, TRUE)

\* The parser run to the end of the stream or to its first error.
yaml_parser_parse(ps) ==
    Repeat(yaml_parser_state_machine, LAMBDA x : x.error \/ x.done, ps)

\* The events of a text, as the parser left them: .error and .events.
EventsOf(scanned) ==
    IF scanned.error THEN PFail(ParserStart(<<>>))
    ELSE yaml_parser_parse(ParserStart(scanned.tokens))

Events(s) == EventsOf(Tokens(s))

(***************************************************************************)
(* serde_yaml (de.rs): the scalars.  A plain scalar is null, a boolean, a  *)
(* number or a string; a number is kept by its canonical writing, so that  *)
(* two writings of one number are one key.                                 *)
(***************************************************************************)
Failed == [ok |-> FALSE, value |-> Null]
Read(value) == [ok |-> TRUE, value |-> value]

NullNames == {<<"~">>, <<"n", "u", "l", "l">>, <<"N", "u", "l", "l">>, <<"N", "U", "L", "L">>}
TrueNames == {<<"t", "r", "u", "e">>, <<"T", "r", "u", "e">>, <<"T", "R", "U", "E">>}
FalseNames == {<<"f", "a", "l", "s", "e">>, <<"F", "a", "l", "s", "e">>, <<"F", "A", "L", "S", "E">>}
InfNames == {<<".", "i", "n", "f">>, <<".", "I", "n", "f">>, <<".", "I", "N", "F">>}
NanNames == {<<".", "n", "a", "n">>, <<".", "N", "a", "N">>, <<".", "N", "A", "N">>}

parse_null(v) == v \in NullNames
parse_bool(v) ==
    IF v \in TrueNames THEN [some |-> TRUE, value |-> Bool(<<"t", "r", "u", "e">>)]
    ELSE [some |-> v \in FalseNames, value |-> Bool(<<"f", "a", "l", "s", "e">>)]

Signs == {"+", "-"}
StartsWithSign(v) == v # <<>> /\ v[1] \in Signs
AllDigits(v) == \A k \in 1..Len(v) : v[k] \in Digits

\* "Leading zero(s) followed by numeric characters is a string."
digits_but_not_number(scalar) ==
    LET unsigned == IF StartsWithSign(scalar) THEN Tail(scalar) ELSE scalar
    IN  Len(unsigned) > 1 /\ unsigned[1] = "0" /\ AllDigits(Tail(unsigned))

\* Natural numbers of any size by their decimal digits, the first digit not
\* 0 and zero the empty sequence.
StripZeros(n) == SubSeq(n, RunEnd(n, 1, LAMBDA d : d = 0), Len(n))
StripZeroChars(text) == SubSeq(text, RunEnd(text, 1, LAMBDA c : c = "0"), Len(text))

RECURSIVE TimesPlus(_, _, _)
\* n * base + carry.
TimesPlus(n, base, carry) ==
    IF n = <<>>
    THEN IF carry = 0 THEN <<>> ELSE TimesPlus(<<>>, base, carry \div 10) \o <<carry % 10>>
    ELSE TimesPlus(SubSeq(n, 1, Len(n) - 1), base, (n[Len(n)] * base + carry) \div 10)
             \o <<(n[Len(n)] * base + carry) % 10>>

\* The number a text of digits writes in a radix.
FromRadix(text, radix) ==
    Repeat(LAMBDA x : [k |-> x.k + 1, n |-> TimesPlus(x.n, radix, AS_HEX(text[x.k]))],
           LAMBDA x : x.k > Len(text),
           [k |-> 1, n |-> <<>>]).n

\* a <= b for two natural numbers.
AtMost(a, b) ==
    \/ Len(a) < Len(b)
    \/ /\ Len(a) = Len(b)
       /\ LET k == FirstOf({j \in 1..Len(a) : a[j] # b[j]})
          IN  k = 0 \/ a[k] < b[k]

U64Max == <<1, 8, 4, 4, 6, 7, 4, 4, 0, 7, 3, 7, 0, 9, 5, 5, 1, 6, 1, 5>>
I64MinAbs == <<9, 2, 2, 3, 3, 7, 2, 0, 3, 6, 8, 5, 4, 7, 7, 5, 8, 0, 8>>
U128Max ==
    <<3, 4, 0, 2, 8, 2, 3, 6, 6, 9, 2, 0, 9, 3, 8, 4, 6, 3, 4, 6,
      3, 3, 7, 4, 6, 0, 7, 4, 3, 1, 7, 6, 8, 2, 1, 1, 4, 5, 5>>
I128MinAbs ==
    <<1, 7, 0, 1, 4, 1, 1, 8, 3, 4, 6, 0, 4, 6, 9, 2, 3, 1, 7, 3,
      1, 6, 8, 7, 3, 0, 3, 7, 1, 5, 8, 8, 4, 1, 0, 5, 7, 2, 8>>

RadixDigits(radix) ==
    CASE radix = 2 -> {"0", "1"}
      [] radix = 8 -> {"0", "1", "2", "3", "4", "5", "6", "7"}
      [] radix = 10 -> Digits
      [] radix = 16 -> HexDigits

NoInt == [some |-> FALSE, digits |-> <<>>]

\* The widest integer has 128 binary digits behind its leading zeros.
MaxSignificant == 128

\* T::from_str_radix of an unsigned text: the digits of the radix, at least
\* one, and a value of at most `limit`.
from_str_radix(text, radix, limit) ==
    LET significant == StripZeroChars(text)
    IN  IF text = <<>> \/ \E k \in 1..Len(text) : text[k] \notin RadixDigits(radix)
           \/ Len(significant) > MaxSignificant
        THEN NoInt
        ELSE [some |-> AtMost(FromRadix(significant, radix), limit),
              digits |-> FromRadix(significant, radix)]

RadixOf(text) ==
    IF StartsWith(text, <<"0", "x">>) THEN 16
    ELSE IF StartsWith(text, <<"0", "o">>) THEN 8
    ELSE IF StartsWith(text, <<"0", "b">>) THEN 2
    ELSE 10

\* The integer written behind the sign: with a radix prefix, or in decimal.
ParseInt(unsigned, scalar, limit) ==
    LET radix == RadixOf(unsigned)
        rest == SubSeq(unsigned, 3, Len(unsigned))
    IN  IF radix # 10 /\ StartsWithSign(rest) THEN NoInt
        ELSE IF radix # 10 /\ from_str_radix(rest, radix, limit).some
        THEN from_str_radix(rest, radix, limit)
        ELSE IF StartsWithSign(unsigned) \/ digits_but_not_number(scalar) THEN NoInt
        ELSE from_str_radix(unsigned, 10, limit)

parse_unsigned_int(scalar, limit) ==
    ParseInt(IF scalar # <<>> /\ scalar[1] = "+" THEN Tail(scalar) ELSE scalar, scalar, limit)

parse_negative_int(scalar, limit) ==
    IF scalar # <<>> /\ scalar[1] = "-" THEN ParseInt(Tail(scalar), scalar, limit) ELSE NoInt

DigitText(n) == IF n = <<>> THEN <<"0">> ELSE [k \in 1..Len(n) |-> HexDigitNames[n[k] + 1]]

NoNumber == [is |-> "none", value |-> Null]
NumberError == [is |-> "error", value |-> Null]
NumberRead(s) == [is |-> "number", value |-> Number(s)]

\* u64, then i64, then u128 and i128, which a Value does not take.
visit_int(v) ==
    IF parse_unsigned_int(v, U64Max).some
    THEN NumberRead(DigitText(parse_unsigned_int(v, U64Max).digits))
    ELSE IF parse_negative_int(v, I64MinAbs).some
    THEN NumberRead((IF parse_negative_int(v, I64MinAbs).digits = <<>> THEN <<>> ELSE <<"-">>)
                    \o DigitText(parse_negative_int(v, I64MinAbs).digits))
    ELSE IF parse_unsigned_int(v, U128Max).some \/ parse_negative_int(v, I128MinAbs).some
    THEN NumberError
    ELSE NoNumber

\* The decimal digits of 2^1024 - 2^970, halfway between the largest f64 and
\* 2^1024: 0.d1d2... * 10^309 from there on is infinite.
InfiniteFrom ==
    <<1, 7, 9, 7, 6, 9, 3, 1, 3, 4, 8, 6, 2, 3, 1, 5, 8, 0, 7, 9, 3, 7, 2, 8, 9, 7, 1, 4, 0, 5,
      3, 0, 3, 4, 1, 5, 0, 7, 9, 9, 3, 4, 1, 3, 2, 7, 1, 0, 0, 3, 7, 8, 2, 6, 9, 3, 6, 1, 7, 3,
      7, 7, 8, 9, 8, 0, 4, 4, 4, 9, 6, 8, 2, 9, 2, 7, 6, 4, 7, 5, 0, 9, 4, 6, 6, 4, 9, 0, 1, 7,
      9, 7, 7, 5, 8, 7, 2, 0, 7, 0, 9, 6, 3, 3, 0, 2, 8, 6, 4, 1, 6, 6, 9, 2, 8, 8, 7, 9, 1, 0,
      9, 4, 6, 5, 5, 5, 5, 4, 7, 8, 5, 1, 9, 4, 0, 4, 0, 2, 6, 3, 0, 6, 5, 7, 4, 8, 8, 6, 7, 1,
      5, 0, 5, 8, 2, 0, 6, 8, 1, 9, 0, 8, 9, 0, 2, 0, 0, 0, 7, 0, 8, 3, 8, 3, 6, 7, 6, 2, 7, 3,
      8, 5, 4, 8, 4, 5, 8, 1, 7, 7, 1, 1, 5, 3, 1, 7, 6, 4, 4, 7, 5, 7, 3, 0, 2, 7, 0, 0, 6, 9,
      8, 5, 5, 5, 7, 1, 3, 6, 6, 9, 5, 9, 6, 2, 2, 8, 4, 2, 9, 1, 4, 8, 1, 9, 8, 6, 0, 8, 3, 4,
      9, 3, 6, 4, 7, 5, 2, 9, 2, 7, 1, 9, 0, 7, 4, 1, 6, 8, 4, 4, 4, 3, 6, 5, 5, 1, 0, 7, 0, 4,
      3, 4, 2, 7, 1, 1, 5, 5, 9, 6, 9, 9, 5, 0, 8, 0, 9, 3, 0, 4, 2, 8, 8, 0, 1, 7, 7, 9, 0, 4,
      1, 7, 4, 4, 9, 7, 7, 9, 2>>

\* The decimal digits of 5^1075: 2^-1075 = 0.d1d2... * 10^-323, halfway
\* between zero and the least positive f64, is zero, and so is all below it.
ZeroUpTo ==
    <<2, 4, 7, 0, 3, 2, 8, 2, 2, 9, 2, 0, 6, 2, 3, 2, 7, 2, 0, 8, 8, 2, 8, 4, 3, 9, 6, 4, 3, 4,
      1, 1, 0, 6, 8, 6, 1, 8, 2, 5, 2, 9, 9, 0, 1, 3, 0, 7, 1, 6, 2, 3, 8, 2, 2, 1, 2, 7, 9, 2,
      8, 4, 1, 2, 5, 0, 3, 3, 7, 7, 5, 3, 6, 3, 5, 1, 0, 4, 3, 7, 5, 9, 3, 2, 6, 4, 9, 9, 1, 8,
      1, 8, 0, 8, 1, 7, 9, 9, 6, 1, 8, 9, 8, 9, 8, 2, 8, 2, 3, 4, 7, 7, 2, 2, 8, 5, 8, 8, 6, 5,
      4, 6, 3, 3, 2, 8, 3, 5, 5, 1, 7, 7, 9, 6, 9, 8, 9, 8, 1, 9, 9, 3, 8, 7, 3, 9, 8, 0, 0, 5,
      3, 9, 0, 9, 3, 9, 0, 6, 3, 1, 5, 0, 3, 5, 6, 5, 9, 5, 1, 5, 5, 7, 0, 2, 2, 6, 3, 9, 2, 2,
      9, 0, 8, 5, 8, 3, 9, 2, 4, 4, 9, 1, 0, 5, 1, 8, 4, 4, 3, 5, 9, 3, 1, 8, 0, 2, 8, 4, 9, 9,
      3, 6, 5, 3, 6, 1, 5, 2, 5, 0, 0, 3, 1, 9, 3, 7, 0, 4, 5, 7, 6, 7, 8, 2, 4, 9, 2, 1, 9, 3,
      6, 5, 6, 2, 3, 6, 6, 9, 8, 6, 3, 6, 5, 8, 4, 8, 0, 7, 5, 7, 0, 0, 1, 5, 8, 5, 7, 6, 9, 2,
      6, 9, 9, 0, 3, 7, 0, 6, 3, 1, 1, 9, 2, 8, 2, 7, 9, 5, 5, 8, 5, 5, 1, 3, 3, 2, 9, 2, 7, 8,
      3, 4, 3, 3, 8, 4, 0, 9, 3, 5, 1, 9, 7, 8, 0, 1, 5, 5, 3, 1, 2, 4, 6, 5, 9, 7, 2, 6, 3, 5,
      7, 9, 5, 7, 4, 6, 2, 2, 7, 6, 6, 4, 6, 5, 2, 7, 2, 8, 2, 7, 2, 2, 0, 0, 5, 6, 3, 7, 4, 0,
      0, 6, 4, 8, 5, 4, 9, 9, 9, 7, 7, 0, 9, 6, 5, 9, 9, 4, 7, 0, 4, 5, 4, 0, 2, 0, 8, 2, 8, 1,
      6, 6, 2, 2, 6, 2, 3, 7, 8, 5, 7, 3, 9, 3, 4, 5, 0, 7, 3, 6, 3, 3, 9, 0, 0, 7, 9, 6, 7, 7,
      6, 1, 9, 3, 0, 5, 7, 7, 5, 0, 6, 7, 4, 0, 1, 7, 6, 3, 2, 4, 6, 7, 3, 6, 0, 0, 9, 6, 8, 9,
      5, 1, 3, 4, 0, 5, 3, 5, 5, 3, 7, 4, 5, 8, 5, 1, 6, 6, 6, 1, 1, 3, 4, 2, 2, 3, 7, 6, 6, 6,
      7, 8, 6, 0, 4, 1, 6, 2, 1, 5, 9, 6, 8, 0, 4, 6, 1, 9, 1, 4, 4, 6, 7, 2, 9, 1, 8, 4, 0, 3,
      0, 0, 5, 3, 0, 0, 5, 7, 5, 3, 0, 8, 4, 9, 0, 4, 8, 7, 6, 5, 3, 9, 1, 7, 1, 1, 3, 8, 6, 5,
      9, 1, 6, 4, 6, 2, 3, 9, 5, 2, 4, 9, 1, 2, 6, 2, 3, 6, 5, 3, 8, 8, 1, 8, 7, 9, 6, 3, 6, 2,
      3, 9, 3, 7, 3, 2, 8, 0, 4, 2, 3, 8, 9, 1, 0, 1, 8, 6, 7, 2, 3, 4, 8, 4, 9, 7, 6, 6, 8, 2,
      3, 5, 0, 8, 9, 8, 6, 3, 3, 8, 8, 5, 8, 7, 9, 2, 5, 6, 2, 8, 3, 0, 2, 7, 5, 5, 9, 9, 5, 6,
      5, 7, 5, 2, 4, 4, 5, 5, 5, 0, 7, 2, 5, 5, 1, 8, 9, 3, 1, 3, 6, 9, 0, 8, 3, 6, 2, 5, 4, 7,
      7, 9, 1, 8, 6, 9, 4, 8, 6, 6, 7, 9, 9, 4, 9, 6, 8, 3, 2, 4, 0, 4, 9, 7, 0, 5, 8, 2, 1, 0,
      2, 8, 5, 1, 3, 1, 8, 5, 4, 5, 1, 3, 9, 6, 2, 1, 3, 8, 3, 7, 7, 2, 2, 8, 2, 6, 1, 4, 5, 4,
      3, 7, 6, 9, 3, 4, 1, 2, 5, 3, 2, 0, 9, 8, 5, 9, 1, 3, 2, 7, 6, 6, 7, 2, 3, 6, 3, 2, 8, 1,
      2, 5>>

InfiniteExponent == 309
ZeroExponent == -323

\* An exponent of a million or more is all the same.
ExponentCap == 1000000

RECURSIVE DecimalOf(_)
DecimalOf(text) ==
    IF text = <<>> THEN 0 ELSE 10 * DecimalOf(SubSeq(text, 1, Len(text) - 1)) + AS_DIGIT(text[Len(text)])

ExponentOf(text) ==
    IF Len(StripZeroChars(text)) > 6 THEN ExponentCap ELSE DecimalOf(StripZeroChars(text))

RECURSIVE NaturalText(_)
NaturalText(n) == IF n < 10 THEN <<HexDigitNames[n + 1]>> ELSE NaturalText(n \div 10) \o <<HexDigitNames[(n % 10) + 1]>>

IntegerText(n) == IF n < 0 THEN <<"-">> \o NaturalText(-n) ELSE NaturalText(n)

\* 0.a < 0.b and 0.a <= 0.b for two sequences of decimal digits.
FractionDigit(a, k) == IF k <= Len(a) THEN a[k] ELSE 0
FractionLess(a, b) ==
    LET k == FirstOf({j \in 1..(Len(a) + Len(b)) : FractionDigit(a, j) # FractionDigit(b, j)})
    IN  k # 0 /\ FractionDigit(a, k) < FractionDigit(b, k)

NoFloat == [some |-> FALSE, value |-> Null]
FloatRead(s) == [some |-> TRUE, value |-> Number(s)]
FloatZero == FloatRead(<<"0", ".", "0">>)

\* Natural numbers of any size as their decimal digits, the first one not 0.
NatLess(a, b) ==
    \/ Len(a) < Len(b)
    \/ /\ Len(a) = Len(b)
       /\ \E k \in 1..Len(a) : a[k] < b[k] /\ \A j \in 1..(k - 1) : a[j] = b[j]

\* 2 * a: a digit of the double takes its carry from the digit behind it.
NatDouble(a) ==
    StripZeros([k \in 1..(Len(a) + 1) |->
                   ((2 * (IF k = 1 THEN 0 ELSE a[k - 1])) % 10)
                   + (IF k <= Len(a) /\ a[k] >= 5 THEN 1 ELSE 0)])

\* The digit of b that stands under the digit k of the longer a.
DigitUnder(a, b, k) == IF k > Len(a) - Len(b) THEN b[k - (Len(a) - Len(b))] ELSE 0

\* A digit borrows where, behind it, a is less than b.
Borrows(a, b, k) ==
    \E j \in (k + 1)..Len(a) :
        /\ a[j] < DigitUnder(a, b, j)
        /\ \A i \in (k + 1)..(j - 1) : a[i] = DigitUnder(a, b, i)

\* a - b, for a >= b.
NatMinus(a, b) ==
    StripZeros([k \in 1..Len(a) |->
                   (a[k] + 10 - DigitUnder(a, b, k) - (IF Borrows(a, b, k) THEN 1 ELSE 0)) % 10])

RECURSIVE NatPlusOne(_)
NatPlusOne(a) ==
    IF a = <<>> THEN <<1>>
    ELSE IF a[Len(a)] < 9 THEN [a EXCEPT ![Len(a)] = @ + 1]
    ELSE NatPlusOne(SubSeq(a, 1, Len(a) - 1)) \o <<0>>

Zeros(n) == [k \in 1..n |-> 0]

\* An f64 has 53 binary digits and no binary exponent below -1074.
MantissaBits == 53
LeastExponent == -1074
TwoTo53 == <<9, 0, 0, 7, 1, 9, 9, 2, 5, 4, 7, 4, 0, 9, 9, 2>>
TwoTo52 == <<4, 5, 0, 3, 5, 9, 9, 6, 2, 7, 3, 7, 0, 4, 9, 6>>

\* n / m as (n / m) * 2^p with 1 <= n / m < 2.
Scaled(n, m) ==
    Repeat(LAMBDA x : IF NatLess(x.n, x.m)
                      THEN [x EXCEPT !.n = NatDouble(@), !.p = @ - 1]
                      ELSE [x EXCEPT !.m = NatDouble(@), !.p = @ + 1],
           LAMBDA x : ~NatLess(x.n, x.m) /\ NatLess(x.n, NatDouble(x.m)),
           [n |-> n, m |-> m, p |-> 0])

\* The next binary digit of n / m behind the digits q, r being what is left
\* of n.
NextBit(x, m) ==
    IF NatLess(NatDouble(x.r), m)
    THEN [q |-> NatDouble(x.q), r |-> NatDouble(x.r), left |-> x.left - 1]
    ELSE [q |-> [NatDouble(x.q) EXCEPT ![Len(NatDouble(x.q))] = @ + 1],
          r |-> NatMinus(NatDouble(x.r), m), left |-> x.left - 1]

\* The first 1 + bits binary digits of n / m, for m <= n < 2 * m.
Quotient(n, m, bits) ==
    Repeat(LAMBDA x : NextBit(x, m), LAMBDA x : x.left = 0,
           [q |-> <<1>>, r |-> NatMinus(n, m), left |-> bits])

\* Round to nearest, ties to even.
RoundedUp(x, m) ==
    \/ NatLess(m, NatDouble(x.r))
    \/ NatDouble(x.r) = m /\ x.q[Len(x.q)] % 2 = 1

Rounded(x, m) == IF RoundedUp(x, m) THEN NatPlusOne(x.q) ELSE x.q

\* The f64 next to (n / m) * 2^p as mantissa * 2^exponent: a mantissa of 53
\* binary digits, of less where the exponent is the least one.
Nearest(n, m, p) ==
    LET bits == IF p - (MantissaBits - 1) < LeastExponent
                THEN p - LeastExponent ELSE MantissaBits - 1
        mantissa == IF bits < 0 THEN <<1>> ELSE Rounded(Quotient(n, m, bits), m)
    IN  IF mantissa = TwoTo53
        THEN [mantissa |-> TwoTo52, exponent |-> p - bits + 1]
        ELSE [mantissa |-> mantissa, exponent |-> p - bits]

\* The f64 next to 0.digits * 10^exponent.
Binary(digits, exponent) ==
    LET scaled == IF exponent >= Len(digits)
                  THEN Scaled(digits \o Zeros(exponent - Len(digits)), <<1>>)
                  ELSE Scaled(digits, <<1>> \o Zeros(Len(digits) - exponent))
    IN  Nearest(scaled.n, scaled.m, scaled.p)

\* The f64 of 0.digits * 10^exponent, the digits without zeros at either
\* end, written with these digits: nothing where it is infinite.
FloatOf(negative, digits, exponent) ==
    IF digits = <<>> THEN FloatZero
    ELSE IF exponent > InfiniteExponent
            \/ (exponent = InfiniteExponent /\ ~FractionLess(digits, InfiniteFrom))
    THEN NoFloat
    ELSE IF exponent < ZeroExponent
            \/ (exponent = ZeroExponent /\ ~FractionLess(ZeroUpTo, digits))
    THEN FloatZero
    ELSE FloatRead((IF negative THEN <<"-">> ELSE <<>>) \o <<"0", ".">> \o DigitText(digits)
                   \o <<"e">> \o IntegerText(exponent))

\* The digits and the exponent of a float as FloatOf writes it.
IsWritten(s) == \E k \in 1..Len(s) : s[k] = "e"
WrittenSign(s) == s[1] = "-"
WrittenDigits(s) ==
    LET point == FirstOf({k \in 1..Len(s) : s[k] = "."})
        e == FirstOf({k \in 1..Len(s) : s[k] = "e"})
    IN  [k \in 1..(e - point - 1) |-> AS_DIGIT(s[point + k])]
WrittenExponent(s) ==
    LET power == SubSeq(s, FirstOf({k \in 1..Len(s) : s[k] = "e"}) + 1, Len(s))
    IN  IF power[1] = "-" THEN -DecimalOf(Tail(power)) ELSE DecimalOf(power)

\* Two floats written with different digits are one f64 where they round to
\* the same one; they are less than a factor of ten apart then.
SameFloat(s, t) ==
    /\ IsWritten(s) /\ IsWritten(t)
    /\ WrittenSign(s) = WrittenSign(t)
    /\ WrittenExponent(s) - WrittenExponent(t) \in {-1, 0, 1}
    /\ Binary(WrittenDigits(s), WrittenExponent(s)) = Binary(WrittenDigits(t), WrittenExponent(t))

StripEnd(n) == SubSeq(n, 1, Len(n) + 1 - RunEnd([k \in 1..Len(n) |-> n[Len(n) + 1 - k]], 1, LAMBDA d : d = 0))

\* The number with the integer part, the fraction and the exponent given.
Decimal(negative, integer, fraction, exponent) ==
    LET digits == [k \in 1..(Len(integer) + Len(fraction)) |-> AS_DIGIT((integer \o fraction)[k])]
    IN  FloatOf(negative, StripEnd(StripZeros(digits)),
                Len(integer) - (Len(digits) - Len(StripZeros(digits))) + exponent)

\* The mantissa: digits with at most one point among them, at least one digit.
Mantissa(negative, text, exponent) ==
    LET point == FirstOf({k \in 1..Len(text) : text[k] = "."})
        integer == IF point = 0 THEN text ELSE SubSeq(text, 1, point - 1)
        fraction == IF point = 0 THEN <<>> ELSE SubSeq(text, point + 1, Len(text))
    IN  IF ~AllDigits(integer) \/ ~AllDigits(fraction) \/ integer \o fraction = <<>>
        THEN NoFloat
        ELSE Decimal(negative, integer, fraction, exponent)

\* f64::from_str on a text without its sign, where the result is finite:
\* "inf", "infinity" and "nan" are not.
Unsigned(negative, text) ==
    LET e == FirstOf({k \in 1..Len(text) : text[k] \in {"e", "E"}})
        power == SubSeq(text, e + 1, Len(text))
        digits == IF StartsWithSign(power) THEN Tail(power) ELSE power
    IN  IF e = 0 THEN Mantissa(negative, text, 0)
        ELSE IF digits = <<>> \/ ~AllDigits(digits) THEN NoFloat
        ELSE Mantissa(negative, SubSeq(text, 1, e - 1),
                      IF power[1] = "-" THEN -ExponentOf(digits) ELSE ExponentOf(digits))

FromStr(text) ==
    IF StartsWithSign(text) THEN Unsigned(text[1] = "-", Tail(text)) ELSE Unsigned(FALSE, text)

parse_f64(scalar) ==
    LET unpositive == IF scalar # <<>> /\ scalar[1] = "+" THEN Tail(scalar) ELSE scalar
    IN  IF unpositive # scalar /\ StartsWithSign(unpositive) THEN NoFloat
        ELSE IF unpositive \in InfNames THEN FloatRead(<<".", "i", "n", "f">>)
        ELSE IF scalar \in {<<"-">> \o name : name \in InfNames}
        THEN FloatRead(<<"-", ".", "i", "n", "f">>)
        ELSE IF scalar \in NanNames THEN FloatRead(<<".", "n", "a", "n">>)
        ELSE FromStr(unpositive)

visit_untagged_scalar(v) ==
    IF v = <<>> \/ parse_null(v) THEN Read(Null)
    ELSE IF parse_bool(v).some THEN Read(parse_bool(v).value)
    ELSE IF visit_int(v).is = "number" THEN Read(visit_int(v).value)
    ELSE IF visit_int(v).is = "error" THEN Failed
    ELSE IF ~digits_but_not_number(v) /\ parse_f64(v).some THEN Read(parse_f64(v).value)
    ELSE Read(Scalar(v))

CoreTag(name) == YamlPrefix \o name

visit_scalar(e, tagged_already) ==
    IF e.tag # <<>> /\ ~tagged_already
    THEN CASE e.tag = CoreTag(<<"b", "o", "o", "l">>) ->
                  IF parse_bool(e.value).some THEN Read(parse_bool(e.value).value) ELSE Failed
           [] e.tag = CoreTag(<<"i", "n", "t">>) ->
                  IF visit_int(e.value).is = "number" THEN Read(visit_int(e.value).value)
                  ELSE Failed
           [] e.tag = CoreTag(<<"f", "l", "o", "a", "t">>) ->
                  IF parse_f64(e.value).some THEN Read(parse_f64(e.value).value) ELSE Failed
           [] e.tag = CoreTag(<<"n", "u", "l", "l">>) ->
                  IF parse_null(e.value) THEN Read(Null) ELSE Failed
           [] OTHER ->
                  IF e.tag[1] = "!" /\ e.plain THEN visit_untagged_scalar(e.value)
                  ELSE Read(Scalar(e.value))
    ELSE IF e.plain THEN visit_untagged_scalar(e.value)
    ELSE Read(Scalar(e.value))

(***************************************************************************)
(* serde_yaml (loader.rs, de.rs): the events of the first document, the    *)
(* anchors and the aliases, and the Value built from them.                 *)
(***************************************************************************)
Last(S) == CHOOSE i \in S : \A j \in S : j <= i

\* The events between the start and the end of the first document.
FirstDocument(events) ==
    SubSeq(events, 2, FirstOf({k \in 1..Len(events) : events[k].type = "DOCUMENT-END"}) - 1)

Documents(events) == Cardinality({k \in 1..Len(events) : events[k].type = "DOCUMENT-START"})

\* The events that carry an anchor.
Anchored(E) == {j \in 1..Len(E) : E[j].type # "ALIAS" /\ E[j].anchor # <<>>}

\* The id of the anchor of event j: the number of names anchored before it.
AnchorId(E, j) == Cardinality({E[m].anchor : m \in {a \in Anchored(E) : a < j}})

\* The events before the alias m that anchored its name.
Named(E, m) == {j \in Anchored(E) : j < m /\ E[j].anchor = E[m].anchor}

UnknownAnchor(E) == \E m \in 1..Len(E) : E[m].type = "ALIAS" /\ Named(E, m) = {}

\* The event an alias jumps to: the last one that took the id of its name.
AliasTarget(E, m) ==
    Last({j \in Anchored(E) : AnchorId(E, j) = AnchorId(E, Last(Named(E, m)))})

\* parse_tag gives the name of a tag that starts with "!"; two tags are
\* equal where their names are after nobang, so a Tagged keeps that.
nobang(tag) == IF Len(tag) > 1 /\ tag[1] = "!" THEN Tail(tag) ELSE tag
parse_tag(tag) == nobang(tag)
\* A tag that is no UTF-8 has no name.
enum_tag(e, tagged_already) ==
    /\ ~tagged_already
    /\ e.tag # <<>> /\ e.tag[1] = "!"
    /\ \A k \in 1..Len(e.tag) : e.tag[k] # NotUtf8

RECURSIVE ValueEq(_, _)
\* Two values are one key: the entries of a mapping in any order.
ValueEq(a, b) ==
    /\ a.kind = b.kind
    /\ (a.str = b.str \/ (a.kind = "num" /\ SameFloat(a.str, b.str)))
    /\ Len(a.items) = Len(b.items)
    /\ IF a.kind = "map"
       THEN \A n \in 1..Len(a.items) : \E m \in 1..Len(b.items) :
                /\ ValueEq(a.items[n].key, b.items[m].key)
                /\ ValueEq(a.items[n].val, b.items[m].val)
       ELSE \A n \in 1..Len(a.items) : ValueEq(a.items[n], b.items[n])

\* remaining_depth of a new deserializer and the jumps allowed per event.
RecursionLimit == 128
RepetitionLimit == 100

\* The deserializer on its way through the events E: the event it is at, the
\* jumps it has made, and a stack of what it is inside of.  A frame is a
\* sequence or a mapping being read ("seq", "map", with the event it started
\* at, its items so far and the key that waits for its value), a tag whose
\* value is being read ("tagged"), or an alias whose target is being read
\* ("alias", with the event to go back to).  The keys of a mapping are read
\* by the deserializer that reads the mapping, with its current_enum; an item
\* of a sequence and the value of a key are read by a new one.
Frame(type, start, back, tag, current_enum) ==
    [type |-> type, start |-> start, back |-> back, tag |-> tag,
     current_enum |-> current_enum, items |-> <<>>, key |-> Null, keyed |-> FALSE]

DeStart ==
    [pos |-> 1, jumps |-> 0, stack |-> <<>>, tagged_already |-> FALSE,
     returning |-> FALSE, value |-> Null, error |-> FALSE, done |-> FALSE]

DeFail(d) == [d EXCEPT !.error = TRUE]
TopFrame(d) == d.stack[Len(d.stack)]
PopFrame(d) == [d EXCEPT !.stack = SubSeq(@, 1, Len(@) - 1)]
PushFrame(d, frame) == [d EXCEPT !.stack = Append(@, frame)]

\* A value has been read and the deserializer is at event pos.
Return(d, value, pos) ==
    [d EXCEPT !.returning = TRUE, !.value = value, !.pos = pos, !.tagged_already = FALSE]

Collections(d) == {k \in 1..Len(d.stack) : d.stack[k].type \in {"seq", "map"}}

\* An alias to a collection that is being read is read again and again until
\* remaining_depth is used up.
jump(E, d) ==
    IF d.jumps + 1 > Len(E) * RepetitionLimit
       \/ AliasTarget(E, d.pos) \in {d.stack[k].start : k \in Collections(d)}
    THEN DeFail(d)
    ELSE [PushFrame(d, Frame("alias", 0, d.pos + 1, <<>>, FALSE)) EXCEPT
             !.pos = AliasTarget(E, d.pos), !.jumps = @ + 1, !.tagged_already = FALSE]

\* visit_sequence and visit_mapping under recursion_check.
recursion_check(d, type) ==
    IF Cardinality(Collections(d)) >= RecursionLimit THEN DeFail(d)
    ELSE [PushFrame(d, Frame(type, d.pos, 0, <<>>, d.tagged_already)) EXCEPT
             !.pos = @ + 1, !.tagged_already = type = "map" /\ d.tagged_already]

\* The value that starts at the event the deserializer is at; the end of a
\* collection gives the collection.
deserialize_any(E, d) ==
    CASE E[d.pos].type = "ALIAS" -> jump(E, d)
      [] E[d.pos].type = "SEQUENCE-END" ->
             Return(PopFrame(d), Sequence(TopFrame(d).items), d.pos + 1)
      [] E[d.pos].type = "MAPPING-END" ->
             Return(PopFrame(d), Mapping(TopFrame(d).items), d.pos + 1)
      [] E[d.pos].type \in {"SCALAR", "SEQUENCE-START", "MAPPING-START"}
         /\ enum_tag(E[d.pos], d.tagged_already) ->
             [PushFrame(d, Frame("tagged", 0, 0, nobang(parse_tag(E[d.pos].tag)), FALSE)) EXCEPT
                 !.tagged_already = TRUE]
      [] E[d.pos].type = "SCALAR" /\ ~enum_tag(E[d.pos], d.tagged_already) ->
             IF visit_scalar(E[d.pos], d.tagged_already).ok
             THEN Return(d, visit_scalar(E[d.pos], d.tagged_already).value, d.pos + 1)
             ELSE DeFail(d)
      [] E[d.pos].type = "SEQUENCE-START" /\ ~enum_tag(E[d.pos], d.tagged_already) ->
             recursion_check(d, "seq")
      [] E[d.pos].type = "MAPPING-START" /\ ~enum_tag(E[d.pos], d.tagged_already) ->
             recursion_check(d, "map")

\* The value read goes where it belongs: under its tag, in place of its
\* alias, to the items of its sequence, or to its mapping as a key or as the
\* value of the key that waits; a key that is in the mapping already is an
\* error.
Deliver(d) ==
    IF d.stack = <<>> THEN [d EXCEPT !.done = TRUE]
    ELSE CASE TopFrame(d).type = "tagged" ->
                  [PopFrame(d) EXCEPT !.value = Tagged(TopFrame(d).tag, d.value)]
           [] TopFrame(d).type = "alias" -> [PopFrame(d) EXCEPT !.pos = TopFrame(d).back]
           [] TopFrame(d).type = "seq" ->
                  [d EXCEPT !.stack[Len(d.stack)].items = Append(@, d.value),
                            !.returning = FALSE]
           [] TopFrame(d).type = "map" /\ ~TopFrame(d).keyed ->
                  IF \E n \in 1..Len(TopFrame(d).items) :
                         ValueEq(TopFrame(d).items[n].key, d.value)
                  THEN DeFail(d)
                  ELSE [d EXCEPT !.stack[Len(d.stack)].key = d.value,
                                 !.stack[Len(d.stack)].keyed = TRUE,
                                 !.returning = FALSE]
           [] TopFrame(d).type = "map" /\ TopFrame(d).keyed ->
                  [d EXCEPT !.stack[Len(d.stack)].items =
                                Append(@, [key |-> TopFrame(d).key, val |-> d.value]),
                            !.stack[Len(d.stack)].keyed = FALSE,
                            !.tagged_already = TopFrame(d).current_enum,
                            !.returning = FALSE]

\* The Value of the events E of a document.
Deserialized(E) ==
    Repeat(LAMBDA d : IF d.returning THEN Deliver(d) ELSE deserialize_any(E, d),
           LAMBDA d : d.error \/ d.done,
           DeStart)

LoadedValue(d) == IF d.error THEN Failed ELSE Read(d.value)

\* The Value of the events of a text: an error in any document and a second
\* document are errors, a text without a document is null.
Loaded(parsed) ==
    IF parsed.error \/ Documents(parsed.events) > 1 THEN Failed
    ELSE IF Documents(parsed.events) = 0 THEN Read(Null)
    ELSE IF UnknownAnchor(FirstDocument(parsed.events)) THEN Failed
    ELSE LoadedValue(Deserialized(FirstDocument(parsed.events)))

\* serde_yaml::from_str::<Value>.
YamlParse(content) == Loaded(Events(content))

(***************************************************************************)
(* Document Scanner.                                                       *)
(***************************************************************************)
UsesKey == <<"u", "s", "e", "s">>

RECURSIVE untag_ref(_)
\* Value::untag_ref: the value under its tags.
untag_ref(value) == IF value.kind = "tagged" THEN untag_ref(value.items[1]) ELSE value

\* Value::as_str: the string of a value that is one under its tags.
as_str(value) == [some |-> untag_ref(value).kind = "str", str |-> untag_ref(value).str]

RECURSIVE extract_uses_from_value(_), ExtractEntries(_), ExtractItems(_)
\* The loop over the entries of a mapping.
ExtractEntries(entries) ==
    Repeat(LAMBDA x :
               [at |-> x.at + 1,
                refs |-> x.refs
                         \o (IF as_str(entries[x.at].key).some
                                /\ as_str(entries[x.at].key).str = UsesKey
                                /\ as_str(entries[x.at].val).some
                                /\ parse_uses_string(as_str(entries[x.at].val).str).some
                             THEN <<parse_uses_string(as_str(entries[x.at].val).str)>>
                             ELSE <<>>)
                         \o extract_uses_from_value(entries[x.at].val)],
           LAMBDA x : x.at > Len(entries),
           [at |-> 1, refs |-> <<>>]).refs

\* A mutant of ExtractItems: the items after the first are not visited.
ExtractItemsFirstOnly(items) ==
    IF items = <<>> THEN <<>> ELSE extract_uses_from_value(Head(items))

\* The loop over the items of a sequence.
ExtractItems(items) ==
    Repeat(LAMBDA x : [at |-> x.at + 1,
                       refs |-> x.refs \o extract_uses_from_value(items[x.at])],
           LAMBDA x : x.at > Len(items),
           [at |-> 1, refs |-> <<>>]).refs

\* The references pushed to refs, in the order they are pushed.
extract_uses_from_value(value) ==
    CASE value.kind = "map" -> ExtractEntries(value.items)
      [] value.kind = "seq" -> ExtractItems(value.items)
      [] OTHER -> <<>>

\* The references of a document as read: the `?` returns the syntax error.
ReferencesOf(yaml) ==
    IF ~yaml.ok THEN [ok |-> FALSE, refs |-> <<>>]
    ELSE [ok |-> TRUE, refs |-> extract_uses_from_value(yaml.value)]

find_action_references(content) == ReferencesOf(YamlParse(content))

(***************************************************************************)
(* The workflow files of the model.                                        *)
(***************************************************************************)
UsesField == <<"u", "s", "e", "s", ":", " ">>
At == <<"@">>
Slash == <<"/">>
CommentMark == <<" ", "#", " ">>

\* format!("{}/{}@{}", owner, repo, reference)
OldUses(action_ref) == action_ref.owner \o Slash \o action_ref.repo \o At \o action_ref.reference

\* format!("{}/{}@{} # {}", owner, repo, sha, version_tag)
NewUses(action_ref, sha, version_tag) ==
    action_ref.owner \o Slash \o action_ref.repo \o At \o sha \o CommentMark \o version_tag

\* The references written in the fields of the model's files.
FieldRefs == {V4, V41, Abc, Abc123}

\* The items of the model's files: a reference field by tag, by a longer tag
\* with the same beginning, by short commit of ten and of six characters and
\* by full commit with its label, and an item that is not YAML.
FieldItems ==
    {UsesField \o OldUses(ActionReference(Owner, Repo, n)) : n \in FieldRefs}
    \cup {UsesField \o NewUses(ActionReference(Owner, Repo, V4), ShaA, V4)}
    \cup {<<"[">>}

ItemLine(item) == <<"-", " ">> \o item \o <<"\n">>

RECURSIVE Concat(_)
Concat(texts) == IF texts = <<>> THEN <<>> ELSE Head(texts) \o Concat(Tail(texts))

\* The texts of n lines, each holding one of the items.
DocsOf(items, n) == {Concat([k \in 1..n |-> ItemLine(line[k])]) : line \in [1..n -> items]}

Docs(n) == DocsOf(FieldItems, n)

RECURSIVE ReposOf(_, _)
\* The sequences of nf files with at most `fields` lines between them.
ReposOf(nf, fields) ==
    IF nf = 0 THEN {<<>>}
    ELSE UNION {{<<d>> \o rest : d \in Docs(n), rest \in ReposOf(nf - 1, fields - n)}
                : n \in 0..fields}

\* The repositories: up to MaxFiles workflow files with up to MaxFields lines
\* between them.
Repos == UNION {ReposOf(nf, MaxFields) : nf \in 1..MaxFiles}

\* The (sha, version_tag) or the error resolve_reference returns.
Outcome(r) == [ok |-> r.ok, sha |-> r.sha, label |-> r.label]

\* The ref names the Resolver asks the network about: the tag of the latest
\* release when update mode is answered one, the reference's own otherwise.
NamesAsked(action_ref, upd, release) ==
    IF upd /\ release.kind = "ok" THEN {release.value} ELSE {action_ref.reference}

\* What the network can answer for one reference: the results of the Resolver
\* over all the lookup services, taken by their answer to the release
\* request, each answering for the names it is asked about.
OutcomesFor(action_ref, upd) ==
    UNION {{Outcome(resolve_reference_with_client(svc, action_ref, upd)) :
               svc \in {s \in Services(action_ref.owner, action_ref.repo,
                                       NamesAsked(action_ref, upd, release)) :
                           s.release[<<action_ref.owner, action_ref.repo>>] = release}}
           : release \in ReleaseResp}

\* OutcomesFor of the reference a/b@v4 in each mode, computed once.
OutcomeTable ==
    {<<upd, OutcomesFor(ActionReference(Owner, Repo, V4), upd)>> : upd \in BOOLEAN}

\* resolve_reference: the Resolver against the network, whose answers the
\* program does not control.  The Resolver puts the names of the reference
\* into the URLs it requests and into the label and looks at nothing else
\* of them, and the network answers any URL with any of its answers: what
\* it can answer for a reference is what it can answer for a/b@v4, the
\* label v4 being the reference's own name.
resolve_reference(action_ref, upd) ==
    {IF o.ok /\ o.label = V4 THEN [o EXCEPT !.label = action_ref.reference] ELSE o :
        o \in (CHOOSE t \in OutcomeTable : t[1] = upd)[2]}

(***************************************************************************)
(* State.                                                                  *)
(***************************************************************************)
VARIABLES
    args_update,           \* args.update
    disk,             \* the content of each file of workflow_files, in glob order
    pc,               \* where main is: "main", "start", "loop", "done", "failed",
                      \* "no_glob", "panic" (&sha[..7]), "panic_unwrap"
                      \* (to_str().unwrap()), "panic_print" (println!, eprintln!)
    fileIdx,          \* the workflow file main is at
    action_refs,      \* process_workflow_file: the references found
    refIdx,           \* process_workflow_file: the reference the loop is at
    updated_content,  \* process_workflow_file: the text being rewritten
    changes,          \* process_workflow_file: the (old, new) pairs pushed
    writes,           \* history: the fs::write calls made for each file
    hist,             \* history: per file, the references found and how each went
    start_disk,       \* history: disk when this run of the program started
    prev_disk,        \* history: disk when the previous run started
    prev_end,         \* history: pc when the previous run ended, "none" in the first
    run,              \* history: the number of this run of the program
    query,            \* resolver: the service, reference and mode asked about
    answer            \* resolver: the result of the query

fileVars == <<args_update, disk, pc, fileIdx, action_refs, refIdx, updated_content,
              changes, writes, hist, start_disk, prev_disk, prev_end, run>>
resolverVars == <<query, answer>>
vars == <<fileVars, resolverVars>>

(***************************************************************************)
(* The Resolver on its own: one query against one lookup service.          *)
(***************************************************************************)
NoAnswer == [done |-> FALSE]
NoQuery == [asked |-> FALSE]

\* The ref names of the Resolver's queries.
QueryNames == {V4, V5}

FilesIdle ==
    /\ args_update = FALSE /\ disk = <<>> /\ pc = "idle" /\ fileIdx = 0
    /\ action_refs = <<>> /\ refIdx = 0 /\ updated_content = <<>>
    /\ changes = <<>> /\ writes = <<>> /\ hist = <<>>
    /\ start_disk = <<>> /\ prev_disk = <<>> /\ prev_end = "none" /\ run = 0

InitResolve ==
    /\ FilesIdle
    /\ query \in {[asked |-> TRUE, svc |-> s, action_ref |-> ActionReference(Owner, Repo, n),
                   update |-> u] :
                  s \in Services(Owner, Repo, QueryNames), n \in QueryNames, u \in BOOLEAN}
    /\ answer = NoAnswer

Resolve ==
    /\ query.asked /\ ~answer.done
    /\ answer' = [done |-> TRUE,
                  result |-> resolve_reference_with_client(query.svc, query.action_ref,
                                                           query.update)]
    /\ UNCHANGED <<query, fileVars>>

NextResolve == Resolve

SpecResolve == InitResolve /\ [][NextResolve]_vars

(***************************************************************************)
(* Claims about the Resolver (checked under SpecResolve).                  *)
(***************************************************************************)
QRef == query.action_ref
QTagKey == <<QRef.owner, QRef.repo, QRef.reference>>
QRelease == query.svc.release[<<QRef.owner, QRef.repo>>]
ACalls == answer.result.calls
CallsTo(op) == {i \in 1..Len(ACalls) : ACalls[i].op = op}

\* The resolve-ref-to-commit lookup of the query has failed with the error err
\* after the requests `calls`.
LookupFailedAt(op, err) ==
    /\ ~answer.result.ok /\ answer.result.err = err
    /\ ACalls[Len(ACalls)].op = op

\* C2 as stated: every tag lookup that did not succeed (non-success status or
\* transport error) is followed by the commit-for-ref lookup of the same ref
\* name, an error is returned only after both were attempted and failed, and
\* no commit-for-ref lookup follows a tag lookup that succeeded.
C2_FallbackOnEveryFailure ==
    answer.done =>
        /\ \A i \in CallsTo("tag") :
              LET resp == query.svc.tag[ACalls[i].key]
              IN  /\ ~(Sent(resp) /\ StatusIsSuccess(resp)) =>
                        /\ i + 1 \in CallsTo("commit")
                        /\ ACalls[i + 1].key = ACalls[i].key
                  /\ (Sent(resp) /\ StatusIsSuccess(resp)) => CallsTo("commit") = {}
        /\ (~answer.result.ok /\ CallsTo("tag") # {}) =>
              /\ CallsTo("commit") # {}
              /\ \A i \in CallsTo("commit") : query.svc.commit[ACalls[i].key].kind # "ok"

\* C2 as amended: a tag lookup that comes back with a non-success status is
\* followed by the commit-for-ref lookup of the same ref name, and no other
\* tag lookup is; an error is returned after both lookups failed, or at once
\* when the tag request fails in transport or a successful response (of the
\* tag lookup or of the dereference) cannot be decoded.
C2_FallbackOnStatus ==
    answer.done =>
        /\ \A i \in CallsTo("tag") :
              LET resp == query.svc.tag[ACalls[i].key]
              IN  IF Sent(resp) /\ ~StatusIsSuccess(resp)
                  THEN /\ i + 1 \in CallsTo("commit")
                       /\ ACalls[i + 1].key = ACalls[i].key
                       /\ answer.result.ok = (query.svc.commit[ACalls[i].key].kind = "ok")
                  ELSE CallsTo("commit") = {}
        /\ (~answer.result.ok /\ CallsTo("tag") # {}) =>
              \/ LookupFailedAt("tag", "transport")
              \/ LookupFailedAt("tag", "decode")
              \/ LookupFailedAt("deref", "decode")
              \/ /\ ACalls[Len(ACalls)].op = "commit"
                 /\ query.svc.commit[ACalls[Len(ACalls)].key].kind # "ok"

\* C2: the tag lookup came back 404 and the commit-for-ref lookup resolved the ref.
C2_Witness ==
    /\ answer.done /\ ~query.update
    /\ query.svc.tag[QTagKey].kind = "status"
    /\ answer.result.ok /\ answer.result.sha = ShaA
    /\ ACalls = <<Call("tag", QTagKey), Call("commit", QTagKey)>>

\* What pin mode gives for the reference ref against the service of the query.
PinModeResult(ref) ==
    resolve_reference_with_client(query.svc, ActionReference(QRef.owner, QRef.repo, ref), FALSE)

\* The result of the query is the one pin mode gives for the original
\* reference against the same service: same commit or same error, the
\* original reference as label, and after the release request the same
\* requests.
FellBackToPin ==
    LET pin == PinModeResult(QRef.reference)
    IN  /\ answer.result.ok = pin.ok
        /\ answer.result.sha = pin.sha
        /\ answer.result.err = pin.err
        /\ answer.result.ok => answer.result.label = QRef.reference
        /\ ACalls = <<Call("release", <<QRef.owner, QRef.repo>>)>> \o pin.calls

\* C3 as stated: in update mode, whenever the latest-release lookup fails (the
\* request fails in transport, comes back with a non-success status, or its
\* answer cannot be read as a release), the result is the one pin mode gives
\* for the original reference, and the failure of the release lookup is not
\* the resolution error.
C3_FallbackOnEveryReleaseFailure ==
    (answer.done /\ query.update /\ QRelease.kind \in FailureKinds) => FellBackToPin

\* C3 as amended: in update mode, when the latest-release request fails in
\* transport or comes back with a non-success status, the result is the one
\* pin mode gives for the original reference against the same service; when
\* it comes back with a success status and a body that cannot be read as a
\* release, that error is the resolution error and no other request is made.
C3_UpdateFallsBackToPin ==
    (answer.done /\ query.update) =>
        /\ QRelease.kind \in {"transport", "status"} => FellBackToPin
        /\ QRelease.kind = "badjson" =>
              /\ ~answer.result.ok /\ answer.result.err = "decode"
              /\ ACalls = <<Call("release", <<QRef.owner, QRef.repo>>)>>

\* C3: no release is published (404) and the original reference v4 resolved.
C3_Witness ==
    /\ answer.done /\ query.update /\ QRelease.kind = "status"
    /\ QRef.reference = V4
    /\ answer.result.ok /\ answer.result.label = V4 /\ answer.result.sha = ShaB

\* C4: in update mode, when the latest-release lookup succeeds with tag T, the
\* lookup is made for T: the result is the commit (or the error) the service
\* gives for T, labelled T, and no request names the original reference.
C4_UpdateResolvesLatestTag ==
    (answer.done /\ query.update /\ QRelease.kind = "ok") =>
        LET T == QRelease.value
            latest == PinModeResult(T)
        IN  /\ answer.result.ok = latest.ok
            /\ answer.result.sha = latest.sha
            /\ answer.result.ok => answer.result.label = T
            /\ ACalls = <<Call("release", <<QRef.owner, QRef.repo>>)>> \o latest.calls
            /\ T # QRef.reference =>
                  \A i \in 1..Len(ACalls) : ACalls[i].key # QTagKey

\* C4: the reference is v4, the latest release is v5 and v5 resolved.
C4_Witness ==
    /\ answer.done /\ query.update /\ QRelease.kind = "ok"
    /\ QRef.reference = V4 /\ QRelease.value = V5
    /\ answer.result.ok /\ answer.result.label = V5
    /\ query.svc.tag[QTagKey].kind = "transport"

\* C5: in pin mode no latest-release lookup is made, every request names the
\* original reference (or the object its tag points at), and a successful
\* result carries a commit identifier the service gave for that reference and
\* the original reference as label.
C5_PinMode ==
    (answer.done /\ ~query.update) =>
        LET tag == query.svc.tag[QTagKey]
            commit == query.svc.commit[QTagKey]
        IN  /\ CallsTo("release") = {}
            /\ \A i \in CallsTo("tag") \cup CallsTo("commit") : ACalls[i].key = QTagKey
            /\ \A i \in CallsTo("deref") : ACalls[i].key = <<QRef.owner, QRef.repo, tag.value>>
            /\ answer.result.ok =>
                  /\ answer.result.label = QRef.reference
                  /\ tag.kind = "ok" =>
                        \/ answer.result.sha = tag.value
                        \/ /\ CallsTo("deref") # {}
                           /\ answer.result.sha =
                                 query.svc.deref[<<QRef.owner, QRef.repo, tag.value>>].value
                  /\ tag.kind # "ok" =>
                        (commit.kind = "ok" /\ answer.result.sha = commit.value)

\* C5: pin mode resolved v4 through its tag.
C5_Witness ==
    /\ answer.done /\ ~query.update /\ QRef.reference = V4
    /\ answer.result.ok /\ answer.result.label = V4 /\ answer.result.sha = ShaB
    /\ query.svc.release[<<QRef.owner, QRef.repo>>].kind = "ok"

\* The tag lookups of the answer whose response carried a tag object.
TagFound == {i \in CallsTo("tag") : query.svc.tag[ACalls[i].key].kind = "ok"}

\* C11 as stated: the dereference request is issued only after a tag lookup
\* whose object is of type tag; when the object is of type commit no
\* dereference request is made and the object identifier is the result.
C11_DerefOnlyForTagObjects ==
    answer.done =>
        /\ \A i \in CallsTo("deref") :
              /\ i - 1 \in TagFound
              /\ query.svc.tag[ACalls[i - 1].key].type = "tag"
        /\ \A i \in TagFound :
              query.svc.tag[ACalls[i].key].type = "commit" =>
                  /\ CallsTo("deref") = {}
                  /\ answer.result.ok /\ answer.result.sha = query.svc.tag[ACalls[i].key].value

\* C12 as stated: when the tag lookup succeeded and the dereference request
\* that followed failed in any way (transport error, non-success status,
\* response that cannot be decoded), the lookup returns the object identifier
\* of the tag lookup and no error.
C12_DerefFailureFallsBack ==
    answer.done =>
        \A i \in CallsTo("deref") :
            query.svc.deref[ACalls[i].key].kind # "ok" =>
                /\ answer.result.ok
                /\ answer.result.sha = query.svc.tag[ACalls[i - 1].key].value

(***************************************************************************)
(* The Parser on its own: parse_uses_string applied to one raw string.     *)
(***************************************************************************)
\* Largest length of the raw strings made of RawChars.
MaxRaw == 5

RawChars == {"a", "/", "@", "#", " "}

\* 40 hexadecimal characters with upper-case digits, 39 and 41 hexadecimal
\* characters, and 40 characters one of which is no hexadecimal digit.
ShaUpper == <<"A", "B", "C", "D", "E", "F", "0", "9", "a", "f">> \o Digits10 \o Digits10 \o Digits10
Sha39 == SubSeq(ShaA, 1, ShaLen - 1)
Sha41 == ShaA \o <<"0">>
NotHex40 == Sha39 \o <<"g">>

\* Field values as workflows write them: an action, a nested action path or
\* a bare name, a reference, and blanks or a comment after it.
WrittenUses ==
    {before \o ref \o after :
        before \in {<<"a", "/", "b", "@">>, <<"a", "/", "b", "/", "c", "@">>,
                    <<"a", "@">>, <<" ", "a", "/", "b", "@", " ">>},
        ref \in {V4, Abc, ShaA, ShaUpper, Sha39, Sha41, NotHex40},
        after \in {<<>>, <<" ">>, <<" ", "#", " ", "v", "4">>, <<"#", "@", "v", "4">>,
                   <<"\f">>, <<" ", "\t">>, <<"U+2003">>}}

RawStrings == UNION {[1..n -> RawChars] : n \in 0..MaxRaw} \cup WrittenUses

InitParse ==
    /\ FilesIdle
    /\ query \in {[asked |-> TRUE, uses |-> u] : u \in RawStrings}
    /\ answer = NoAnswer

Parse ==
    /\ query.asked /\ ~answer.done
    /\ answer' = [done |-> TRUE, result |-> parse_uses_string(query.uses)]
    /\ UNCHANGED <<query, fileVars>>

NextParse == Parse

SpecParse == InitParse /\ [][NextParse]_vars

(***************************************************************************)
(* Claims about the Parser (checked under SpecParse).                      *)
(***************************************************************************)
\* The indices of s that hold the character c.
Positions(s, c) == {i \in 1..Len(s) : s[i] = c}

\* The least element of a non-empty set of numbers.
Least(S) == CHOOSE i \in S : \A j \in S : i <= j

\* The Parser as specified, on the raw string: the text before the first `#`,
\* trimmed; exactly one `@`; the reference is the trimmed text after it and
\* is not 40 hexadecimal characters; the text before it holds a `/`, the
\* owner is what precedes the first `/` and the repo what follows it.
SpecifiedParser(raw) ==
    LET hashes == Positions(raw, "#")
        cleaned == Trim(IF hashes = {} THEN raw ELSE SubSeq(raw, 1, Least(hashes) - 1))
        ats == Positions(cleaned, "@")
    IN  IF Cardinality(ats) # 1 THEN NoRef
        ELSE LET at == Least(ats)
                 left == SubSeq(cleaned, 1, at - 1)
                 right == Trim(SubSeq(cleaned, at + 1, Len(cleaned)))
                 slashes == Positions(left, "/")
             IN  IF Len(right) = ShaLen /\ \A i \in 1..Len(right) : right[i] \in HexDigits
                 THEN NoRef
                 ELSE IF slashes = {} THEN NoRef
                 ELSE [some |-> TRUE,
                       owner |-> SubSeq(left, 1, Least(slashes) - 1),
                       repo |-> SubSeq(left, Least(slashes) + 1, Len(left)),
                       reference |-> right]

\* C13: for every raw string parse_uses_string gives what the specified
\* Parser gives: the same rejection, or the same owner, repo and reference.
C13_ParserAgrees ==
    answer.done => answer.result = SpecifiedParser(query.uses)

\* C13: a nested action path with a comment was accepted, the repo keeping
\* the remaining segments and the comment dropped.
C13_Witness ==
    /\ answer.done /\ answer.result.some
    /\ query.uses = <<"a", "/", "b", "/", "c", "@">> \o V4 \o <<" ", "#", " ", "v", "4">>
    /\ answer.result.owner = <<"a">> /\ answer.result.repo = <<"b", "/", "c">>
    /\ answer.result.reference = V4

(***************************************************************************)
(* The Scanner on its own: extract_uses_from_value applied to one tree.    *)
(***************************************************************************)
\* Largest nesting depth of the document trees.
MaxDepth == 3

\* The scalars at the leaves: two references the Parser accepts and a pinned
\* one it rejects.
LeafValues ==
    {Scalar(OldUses(ActionReference(Owner, Repo, V4))),
     Scalar(OldUses(ActionReference(Owner, Repo, V5))),
     Scalar(OldUses(ActionReference(Owner, Repo, ShaA)))}

\* The scalar written next to a nested value.
SideValue == Scalar(OldUses(ActionReference(Owner, Repo, V5)))

JobsKey == <<"j", "o", "b", "s">>
TreeKeys == {UsesKey, JobsKey}
\* The keys of a mapping of two entries: a mapping holds a key once.
KeyPairs == {kk \in TreeKeys \X TreeKeys : kk[1] # kk[2]}

Entry(k, v) == [key |-> Scalar(k), val |-> v]

\* The sequences and mappings that nest the value t, alone or next to SideValue.
Nest(t) ==
    {Sequence(<<t>>), Sequence(<<SideValue, t>>), Sequence(<<t, SideValue>>)}
    \cup {Mapping(<<Entry(k, t)>>) : k \in TreeKeys}
    \cup {Mapping(<<Entry(kk[1], SideValue), Entry(kk[2], t)>>) : kk \in KeyPairs}
    \cup {Mapping(<<Entry(kk[1], t), Entry(kk[2], SideValue)>>) : kk \in KeyPairs}

RECURSIVE Trees(_)
\* The document trees of nesting depth d at most.
Trees(d) ==
    IF d = 0 THEN LeafValues
    ELSE LeafValues \cup UNION {Nest(t) : t \in Trees(d - 1)}

InitScan ==
    /\ FilesIdle
    /\ query \in {[asked |-> TRUE, value |-> t] : t \in Trees(MaxDepth)}
    /\ answer = NoAnswer

Scan ==
    /\ query.asked /\ ~answer.done
    /\ answer' = [done |-> TRUE, result |-> extract_uses_from_value(query.value)]
    /\ UNCHANGED <<query, fileVars>>

NextScan == Scan

SpecScan == InitScan /\ [][NextScan]_vars

(***************************************************************************)
(* Claims about the Scanner (checked under SpecScan).                      *)
(***************************************************************************)
\* The children of a node: the values of a mapping's entries, the items of a
\* sequence, none for a scalar.
Children(node) ==
    IF node.kind = "map" THEN [i \in 1..Len(node.items) |-> node.items[i].val]
    ELSE IF node.kind = "seq" THEN node.items
    ELSE <<>>

RECURSIVE NodeAt(_, _)
\* The node a path of child indices leads to.
NodeAt(node, path) ==
    IF path = <<>> THEN node ELSE NodeAt(Children(node)[Head(path)], Tail(path))

RECURSIVE PathsOf(_)
\* The paths to the nodes below a node.
PathsOf(node) ==
    UNION {{<<i>>} \cup {<<i>> \o p : p \in PathsOf(Children(node)[i])}
           : i \in 1..Len(Children(node))}

\* The path leads to the value of a mapping entry whose key is `uses` and
\* whose value is a scalar the Parser accepts.
IsUsesEntry(tree, path) ==
    LET parent == NodeAt(tree, SubSeq(path, 1, Len(path) - 1))
        entry == parent.items[path[Len(path)]]
    IN  /\ parent.kind = "map"
        /\ entry.key.kind = "str" /\ entry.key.str = UsesKey
        /\ entry.val.kind = "str" /\ parse_uses_string(entry.val.str).some

\* Path p comes before path q in a depth-first traversal, neither being the
\* beginning of the other.
Before(p, q) ==
    \E k \in 1..Len(p) :
        /\ k <= Len(q) /\ SubSeq(p, 1, k - 1) = SubSeq(q, 1, k - 1) /\ p[k] < q[k]

RECURSIVE InOrder(_)
\* The paths of a set, in traversal order.
InOrder(paths) ==
    IF paths = {} THEN <<>>
    ELSE LET first == CHOOSE p \in paths : \A q \in paths \ {p} : Before(p, q)
         IN  <<first>> \o InOrder(paths \ {first})

\* The references the Scanner is specified to return for a tree.
SpecifiedScan(tree) ==
    LET hits == InOrder({p \in PathsOf(tree) : IsUsesEntry(tree, p)})
    IN  [i \in 1..Len(hits) |-> parse_uses_string(NodeAt(tree, hits[i]).str)]

\* C14: for every tree the Scanner returns one reference for each mapping
\* entry with the key `uses` and a scalar value the Parser accepts, at every
\* depth, in depth-first order, identical references repeated, and the empty
\* sequence when there is no such entry.
C14_ScannerFindsAll ==
    answer.done => answer.result = SpecifiedScan(query.value)

\* C14: `uses` entries at the depths 1, 2 and 3, the first two with the same
\* reference, gave three references in that order.
C14_Witness ==
    /\ answer.done
    /\ query.value =
          Mapping(<<Entry(UsesKey, SideValue),
                    Entry(JobsKey,
                          Mapping(<<Entry(UsesKey, SideValue),
                                    Entry(JobsKey,
                                          Mapping(<<Entry(UsesKey,
                                                          Scalar(OldUses(ActionReference(Owner, Repo, V4))))>>))>>))>>)
    /\ Len(answer.result) = 3
    /\ answer.result[1] = answer.result[2]
    /\ answer.result[1].reference = V5 /\ answer.result[3].reference = V4

(***************************************************************************)
(* main and process_workflow_file.                                         *)
(***************************************************************************)
NoHistory == [status |-> "pending", found |-> <<>>, outcomes |-> <<>>, written |-> <<>>]

\* The state when main is entered in one of the repositories.
InitOn(repos) ==
    /\ args_update \in BOOLEAN
    /\ disk \in repos
    /\ pc = "main" /\ fileIdx = 1
    /\ action_refs = <<>> /\ refIdx = 0 /\ updated_content = <<>> /\ changes = <<>>
    /\ writes = [f \in 1..Len(disk) |-> 0]
    /\ hist = [f \in 1..Len(disk) |-> NoHistory]
    /\ start_disk = disk /\ prev_disk = disk /\ prev_end = "none" /\ run = 1
    /\ query = NoQuery /\ answer = NoAnswer

\* The workflow directory holds no file or some files.
Init == InitOn(Repos \cup {<<>>})

\* main up to its loop over workflow_files.  pattern.to_str().unwrap() panics
\* on a path that is not UTF-8, a pattern glob::glob rejects makes main
\* return the error, a path the glob cannot read is reported with eprintln!
\* and left out, and with no workflow file main prints a line and returns
\* Ok(()).  println! and eprintln! panic when the stream cannot be written.
Main ==
    /\ pc = "main"
    /\ \E path_is_utf8 \in BOOLEAN, pattern_ok \in BOOLEAN, entry_ok \in BOOLEAN,
          stderr_ok \in BOOLEAN, stdout_ok \in BOOLEAN :
          pc' = IF ~path_is_utf8 THEN "panic_unwrap"
                ELSE IF ~pattern_ok THEN "no_glob"
                ELSE IF ~entry_ok /\ ~stderr_ok THEN "panic_print"
                ELSE IF disk # <<>> THEN "start"
                ELSE IF stdout_ok THEN "done"
                ELSE "panic_print"
    /\ UNCHANGED <<args_update, disk, fileIdx, action_refs, refIdx, updated_content, changes,
                   writes, hist, start_disk, prev_disk, prev_end, run, resolverVars>>

\* process_workflow_file returned Ok(()): main goes on to the next file, or
\* returns Ok(()) after the last one.
ReturnOk ==
    IF fileIdx = Len(disk)
    THEN pc' = "done" /\ fileIdx' = fileIdx
    ELSE pc' = "start" /\ fileIdx' = fileIdx + 1

\* fs::read_to_string(file_path): the text of the file, or an error when the
\* file cannot be read or its bytes are not UTF-8.
ReadResults(bytes) ==
    {[ok |-> FALSE, content |-> <<>>]}
    \cup (IF from_utf8_ok(bytes) THEN {[ok |-> TRUE, content |-> bytes]} ELSE {})

\* process_workflow_file up to its loop: the file is read and scanned.  A
\* file that cannot be read as text and a file that does not parse make
\* process_workflow_file, and then main, return the error; the println! of
\* the file's name panics when stdout cannot be written.
ProcessStart ==
    /\ pc = "start"
    /\ \E read \in ReadResults(disk[fileIdx]), stdout_ok \in BOOLEAN :
       \E found \in {IF read.ok THEN find_action_references(read.content)
                      ELSE [ok |-> FALSE, refs |-> <<>>]} :
       LET content == read.content
       IN  IF ~read.ok \/ ~found.ok
           THEN /\ pc' = "failed"
                /\ hist' = [hist EXCEPT ![fileIdx].status = "err"]
                /\ UNCHANGED <<fileIdx, action_refs, refIdx, updated_content, changes>>
           ELSE IF found.refs = <<>>
           THEN /\ ReturnOk
                /\ hist' = [hist EXCEPT ![fileIdx].status = "ok"]
                /\ UNCHANGED <<action_refs, refIdx, updated_content, changes>>
           ELSE IF ~stdout_ok
           THEN /\ pc' = "panic_print"
                /\ hist' = [hist EXCEPT ![fileIdx].status = "panic_print"]
                /\ UNCHANGED <<fileIdx, action_refs, refIdx, updated_content, changes>>
           ELSE /\ pc' = "loop"
                /\ action_refs' = found.refs
                /\ refIdx' = 1
                /\ updated_content' = content
                /\ changes' = <<>>
                /\ hist' = [hist EXCEPT ![fileIdx] =
                               [status |-> "active", found |-> found.refs, outcomes |-> <<>>,
                                written |-> <<>>]]
                /\ UNCHANGED fileIdx
    /\ UNCHANGED <<args_update, disk, writes, start_disk, prev_disk, prev_end, run, resolverVars>>

Logged(r, pushed, altered) ==
    [ok |-> r.ok, sha |-> r.sha, label |-> r.label, pushed |-> pushed, altered |-> altered]

\* &sha[..7]: the slice panics when sha is shorter than 7 bytes or when its
\* 7th byte is inside a character.
SliceInRange(sha) == is_char_boundary(sha, ShortLen)

\* !action_ref.reference.starts_with(&sha[..7])
NotPinnedTo(action_ref, sha) == ~StartsWith(action_ref.reference, ByteSlice(sha, ShortLen))

\* One turn of the loop over action_refs: the reference is resolved and, when
\* it is not yet pinned to the commit, replaced in the text.  A failed
\* lookup is reported with eprintln!, which panics when stderr cannot be
\* written.
ResolveRef ==
    /\ pc = "loop" /\ refIdx <= Len(action_refs)
    /\ \E r \in resolve_reference(action_refs[refIdx], args_update), stderr_ok \in BOOLEAN :
          LET action_ref == action_refs[refIdx]
              old_uses == OldUses(action_ref)
              new_uses == NewUses(action_ref, r.sha, r.label)
              replaced == Replace(updated_content, UsesField \o old_uses, UsesField \o new_uses)
          IN  IF ~r.ok /\ ~stderr_ok
              THEN /\ pc' = "panic_print"
                   /\ hist' = [hist EXCEPT ![fileIdx].outcomes = Append(@, Logged(r, FALSE, FALSE)),
                                           ![fileIdx].status = "panic_print"]
                   /\ UNCHANGED <<refIdx, updated_content, changes>>
              ELSE IF ~r.ok
              THEN /\ hist' = [hist EXCEPT ![fileIdx].outcomes = Append(@, Logged(r, FALSE, FALSE))]
                   /\ refIdx' = refIdx + 1
                   /\ UNCHANGED <<pc, updated_content, changes>>
              ELSE IF ~SliceInRange(r.sha)
              THEN /\ pc' = "panic"
                   /\ hist' = [hist EXCEPT ![fileIdx].outcomes = Append(@, Logged(r, FALSE, FALSE)),
                                           ![fileIdx].status = "panic"]
                   /\ UNCHANGED <<refIdx, updated_content, changes>>
              ELSE IF NotPinnedTo(action_ref, r.sha)
              THEN /\ updated_content' = replaced
                   /\ changes' = Append(changes, <<old_uses, new_uses>>)
                   /\ hist' = [hist EXCEPT ![fileIdx].outcomes =
                                  Append(@, Logged(r, TRUE, replaced # updated_content))]
                   /\ refIdx' = refIdx + 1
                   /\ UNCHANGED pc
              ELSE /\ hist' = [hist EXCEPT ![fileIdx].outcomes = Append(@, Logged(r, FALSE, FALSE))]
                   /\ refIdx' = refIdx + 1
                   /\ UNCHANGED <<pc, updated_content, changes>>
    /\ UNCHANGED <<args_update, disk, fileIdx, action_refs, writes, start_disk, prev_disk,
                   prev_end, run, resolverVars>>

\* The beginnings of a text that are shorter than it in bytes: those that
\* end with a character of the text and those that end inside one.
Beginnings(contents) ==
    {SubSeq(contents, 1, k) : k \in 0..(Len(contents) - 1)}
    \cup UNION {{Append(SubSeq(contents, 1, k - 1), Torn(contents[k], n)) :
                    n \in 1..(CharBytes(contents[k]) - 1)} : k \in 1..Len(contents)}

\* fs::write(file_path, contents): the file is created or truncated and the
\* contents are written to it.  When the file cannot be opened it is left as
\* it was; when the writing fails after any number of bytes, fewer than all
\* of them, the file holds those bytes.
WriteResults(old, contents) ==
    {[ok |-> TRUE, stored |-> contents], [ok |-> FALSE, stored |-> old]}
    \cup {[ok |-> FALSE, stored |-> b] : b \in Beginnings(contents)}

\* After the loop: the text is written when changes were pushed; a write that
\* fails makes process_workflow_file, and then main, return the error, and
\* the println! of a change panics when stdout cannot be written.
Finish ==
    /\ pc = "loop" /\ refIdx > Len(action_refs)
    /\ IF changes # <<>>
       THEN \E w \in WriteResults(disk[fileIdx], updated_content), stdout_ok \in BOOLEAN :
               /\ writes' = [writes EXCEPT ![fileIdx] = @ + 1]
               /\ disk' = [disk EXCEPT ![fileIdx] = w.stored]
               /\ IF ~w.ok
                  THEN /\ pc' = "failed"
                       /\ hist' = [hist EXCEPT ![fileIdx].status = "err",
                                               ![fileIdx].written = updated_content]
                       /\ UNCHANGED fileIdx
                  ELSE IF ~stdout_ok
                  THEN /\ pc' = "panic_print"
                       /\ hist' = [hist EXCEPT ![fileIdx].status = "panic_print",
                                               ![fileIdx].written = updated_content]
                       /\ UNCHANGED fileIdx
                  ELSE /\ hist' = [hist EXCEPT ![fileIdx].status = "ok",
                                               ![fileIdx].written = updated_content]
                       /\ ReturnOk
       ELSE /\ hist' = [hist EXCEPT ![fileIdx].status = "ok"]
            /\ ReturnOk
            /\ UNCHANGED <<disk, writes>>
    /\ UNCHANGED <<args_update, action_refs, refIdx, updated_content, changes, start_disk,
                   prev_disk, prev_end, run, resolverVars>>

Next == Main \/ ProcessStart \/ ResolveRef \/ Finish

Spec == Init /\ [][Next]_vars

(***************************************************************************)
(* The program run again on the files it left.                             *)
(***************************************************************************)
\* Largest number of runs of the program.
MaxRuns == 2

Rerun ==
    /\ pc \in {"done", "failed", "no_glob", "panic", "panic_unwrap", "panic_print"}
    /\ run < MaxRuns
    /\ args_update' \in BOOLEAN
    /\ pc' = "main" /\ fileIdx' = 1
    /\ action_refs' = <<>> /\ refIdx' = 0 /\ updated_content' = <<>> /\ changes' = <<>>
    /\ writes' = [f \in 1..Len(disk) |-> 0]
    /\ hist' = [f \in 1..Len(disk) |-> NoHistory]
    /\ prev_disk' = start_disk /\ prev_end' = pc /\ start_disk' = disk /\ run' = run + 1
    /\ UNCHANGED <<disk, resolverVars>>

NextRerun == Main \/ ProcessStart \/ ResolveRef \/ Finish \/ Rerun

\* The references of the fields of a file the program is run on twice, line
\* by line: a tag, a short commit, or the tag and then the short commit.
RerunRefs == {<<V4>>, <<Abc123>>, <<V4, Abc123>>}

\* The repositories the program is run on twice: one workflow file.
RerunRepos ==
    {<<Concat([k \in 1..Len(refs) |->
                  ItemLine(UsesField \o OldUses(ActionReference(Owner, Repo, refs[k])))])>> :
        refs \in RerunRefs}

InitRerun == InitOn(RerunRepos)

SpecRerun == InitRerun /\ [][NextRerun]_vars

(***************************************************************************)
(* Claims about process_workflow_file and main (checked under Spec, the    *)
(* last one under SpecRerun).                                              *)
(***************************************************************************)
Files == 1..Len(disk)

\* The text of file f as the program holds it: the text being rewritten while
\* the file is processed, the text handed to a fs::write that failed, the
\* stored text otherwise.
Text(f) ==
    IF hist[f].status \in {"active", "panic"} THEN updated_content
    ELSE IF hist[f].status = "err" /\ writes[f] = 1 THEN hist[f].written
    ELSE disk[f]

\* The non-empty lines of a text.
Lines(text) == SelectSeq(Split(text, "\n"), LAMBDA l : l # <<>>)

\* The k-th of them, <<>> when the text has fewer.
Line(text, k) == IF k \in 1..Len(Lines(text)) THEN Lines(text)[k] ELSE <<>>

RECURSIVE UsesFields(_)
\* The strings of the `uses` fields of a value, in the order the Scanner
\* visits them.
UsesFields(value) ==
    IF value.kind = "seq" THEN Concat([k \in 1..Len(value.items) |-> UsesFields(value.items[k])])
    ELSE IF value.kind = "map"
    THEN Concat([k \in 1..Len(value.items) |->
                    (IF as_str(value.items[k].key) = [some |-> TRUE, str |-> UsesKey]
                        /\ as_str(value.items[k].val).some
                     THEN <<as_str(value.items[k].val).str>>
                     ELSE <<>>)
                    \o UsesFields(value.items[k].val)])
    ELSE <<>>

\* The strings of the `uses` fields of a document as read, none when the
\* text is no document.
FieldsOf(yaml) == IF yaml.ok THEN UsesFields(yaml.value) ELSE <<>>

\* The strings of the `uses` fields of a text, which the Scanner hands to
\* parse_uses_string in this order.
Fields(text) == FieldsOf(YamlParse(text))

\* The k-th of a sequence of field strings, <<>> when there are fewer.
Field(fields, k) == IF k \in 1..Len(fields) THEN fields[k] ELSE <<>>

\* The numbers of the fields the Scanner returns a reference for: the i-th
\* reference found is the one of the field of the i-th of these numbers.
RefFields(fields) ==
    SelectSeq([k \in 1..Len(fields) |-> k], LAMBDA k : parse_uses_string(fields[k]).some)

Pushed(f) == {i \in 1..Len(hist[f].outcomes) : hist[f].outcomes[i].pushed}

\* C1 (its sentence on the replacement step) as stated: the replacement made
\* for one reference leaves every field alone whose reference string is not
\* the one replaced.
C1_ReplacementKeepsOtherFields ==
    [][(pc = "loop" /\ refIdx <= Len(action_refs) /\ updated_content' # updated_content) =>
          \A before \in {Fields(updated_content)}, after \in {Fields(updated_content')} :
              \A k \in 1..Len(before) :
                  parse_uses_string(before[k]) # action_refs[refIdx] =>
                      Field(after, k) = before[k]]_vars

\* C6 (its first half) as stated: a reference whose resolution failed has no
\* change record and the text of its field is the text the file came with.
C6_FailedReferenceUntouched ==
    \A f \in Files :
        (\E i \in 1..Len(hist[f].outcomes) : ~hist[f].outcomes[i].ok) =>
            \A before \in {Fields(start_disk[f])}, now \in {Fields(Text(f))} :
                \A i \in 1..Len(hist[f].outcomes) :
                    ~hist[f].outcomes[i].ok =>
                        /\ i \notin Pushed(f)
                        /\ Field(now, RefFields(before)[i]) = before[RefFields(before)[i]]

\* C7 as stated: when main returns, with or without an error, every workflow
\* file has been processed.
C7_EveryFileProcessed ==
    pc \in {"done", "failed"} => \A f \in Files : hist[f].status # "pending"

\* C8 as stated: after a successful resolution a change record is emitted and
\* the text altered exactly when the original reference does not start with
\* the first 7 characters of the commit identifier, which it does not when
\* the identifier has no such beginning (&sha[..7] is out of range).
C8_ChangeIffNotPrefixed ==
    \A f \in Files : \A i \in 1..Len(hist[f].outcomes) :
        LET o == hist[f].outcomes[i]
        IN  o.ok => ((o.pushed /\ o.altered)
                        <=> ~(/\ SliceInRange(o.sha)
                              /\ StartsWith(hist[f].found[i].reference,
                                            ByteSlice(o.sha, ShortLen))))

\* C9 as stated: a file is written at most once, only with a change record
\* accepted and every reference resolved or failed, and a write that
\* succeeds stores the whole rewritten text; and once its processing has
\* ended it has been written exactly when a change record was accepted.
C9_WrittenIffChanged ==
    \A f \in Files :
        /\ writes[f] <= 1
        /\ writes[f] = 1 =>
              /\ Pushed(f) # {}
              /\ Len(hist[f].outcomes) = Len(hist[f].found)
        /\ disk[f] # start_disk[f] => writes[f] = 1
        /\ (writes[f] = 1 /\ hist[f].status = "ok") => disk[f] = hist[f].written
        /\ hist[f].status \in {"ok", "err", "panic"} => (writes[f] = 1 <=> Pushed(f) # {})

\* The reference of a field string is exactly 40 hexadecimal characters.
IsPinnedField(uses) ==
    LET parts == Split(Trim(Split(uses, "#")[1]), "@")
    IN  Len(parts) = 2 /\ IsPinnedSha(Trim(parts[2]))

\* C10 as stated: in a run on the files a previous run left when it returned
\* Ok(()), a field that run rewrote to a reference of 40 hexadecimal
\* characters yields no candidate reference and keeps its text.
C10_PinnedOutputStays ==
    (run > 1 /\ prev_end = "done") =>
        \A f \in {g \in Files : prev_disk[g] # start_disk[g]} :
            \A left \in {Fields(start_disk[f])} :
                \A k \in {j \in 1..Len(left) : IsPinnedField(left[j])} :
                    Field(Fields(prev_disk[f]), k) # left[k] =>
                        /\ ~parse_uses_string(left[k]).some
                        /\ Text(f) # start_disk[f] => Field(Fields(Text(f)), k) = left[k]

RECURSIVE MatchesFrom(_, _, _)
\* The matches str::replace finds in a text from index i on: left to right,
\* each one after the end of the one before it.
MatchesFrom(text, old_text, i) ==
    LET j == NextMatch(text, old_text, i)
    IN  IF j = 0 THEN {} ELSE {j} \cup MatchesFrom(text, old_text, j + Len(old_text))

\* The places of a text at which str::replace finds old_text.
OccurrencesOf(text, old_text) == MatchesFrom(text, old_text, 1)

\* The lines of a text in which old_text stands.
LinesHolding(text, old_text) ==
    {k \in 1..Len(Lines(text)) : Contains(Lines(text)[k], old_text)}

\* What a line carries as the value of its field: the text after the first
\* `uses: ` of the line.
Carried(line) ==
    LET j == NextMatch(line, UsesField, 1)
    IN  IF j = 0 THEN <<>> ELSE SubSeq(line, j + Len(UsesField), Len(line))

\* C15 as stated: when a file in which the text `uses: owner/repo@ref` of a
\* change record stood several times has been written, that text stands
\* nowhere in the file any more, and every line in which it stood carries
\* one and the same value `owner/repo@sha # label`, the new text of a change
\* record of that reference.
C15_AllOccurrencesReplaced ==
    \A f \in Files :
        (hist[f].status = "ok" /\ writes[f] = 1) =>
            \A i \in Pushed(f) :
                \A old_text \in {UsesField \o OldUses(hist[f].found[i])} :
                    Cardinality(OccurrencesOf(start_disk[f], old_text)) > 1 =>
                        /\ OccurrencesOf(disk[f], old_text) = {}
                        /\ \E j \in Pushed(f) :
                              /\ hist[f].found[j] = hist[f].found[i]
                              /\ \A k \in LinesHolding(start_disk[f], old_text) :
                                    Carried(Line(disk[f], k))
                                       = NewUses(hist[f].found[j], hist[f].outcomes[j].sha,
                                                 hist[f].outcomes[j].label)

\* C16 as stated: every change record pushed for a file was applied: the step
\* that pushed it found `uses: <oldText>` in the text and changed the text.
C16_ChangeRecordsApplied ==
    \A f \in Files : \A i \in Pushed(f) : hist[f].outcomes[i].altered

\* C17 as stated: whatever commit identifier a successful lookup returns, the
\* no-op comparison completes: the reference is rewritten or skipped and the
\* loop goes on to the references that remain.
C17_ComparisonCompletes ==
    /\ pc # "panic"
    /\ \A f \in Files : \A i \in 1..Len(hist[f].outcomes) :
          hist[f].outcomes[i].ok =>
              \/ hist[f].status \in {"ok", "err", "panic_print"}
              \/ (hist[f].status = "active" /\ refIdx > i)
====
